---- MODULE Spec2Model ----
(***************************************************************************)
(* A model of the task orchestration engine of the YTDL Telegram bot:      *)
(* the flood-control retry wrapper (queue_processor.tg_retry), the         *)
(* proxy-failover fetch (downloader.download_content), the delivery        *)
(* pipeline (queue_processor.handle_upload) and the two queue workers      *)
(* (process_queue, process_playlist_queue) with the cancellation registry  *)
(* (handlers.cancelled_tasks) and the live-capture supervisor.             *)
(***************************************************************************)
EXTENDS Integers, Sequences, FiniteSets, TLC

VARIABLES
    env,              \* the process environment read by config.load_config
    cancelled_tasks,  \* handlers.cancelled_tasks
    disk,             \* the files present in DOWNLOAD_DIR
    now,              \* int(time.time())
    msgs,             \* the messages the bot has sent, as the chats show them
    tg,               \* one tg_retry call
    dl,               \* the download_content call of each caller
    hu,               \* the handle_upload call of each caller
    w,                \* the frame of each queue worker (its locals and cells)
    queue,            \* request_queue and playlist_queue
    live,             \* the process_live_stream tasks
    hist,             \* history: what was enqueued, started, reported
    db,               \* the SQLite database of database.py
    scan,             \* the subscription monitor and the manual channel checks
    co                \* the update_status_msg coroutines waiting for the transport

(***************************************************************************)
(* Bounds of the model.                                                    *)
(***************************************************************************)
\* the largest retry_after a RetryAfter error carries
MaxWait == 3
\* the largest number of comma-separated entries of PROXY_LIST
MaxEntries == 3
\* how many progress ticks the extractor reports during one fetch attempt
MaxTicks == 1

(***************************************************************************)
(* Text. A string is a sequence of one-character strings, so that          *)
(* str.lower, str.split, str.strip and the substring test are computed.    *)
(***************************************************************************)
UpperCase == <<"A", "B", "C", "D", "E", "F", "G", "H", "I", "J", "K", "L", "M", "N", "O", "P", "Q", "R", "S", "T", "U", "V", "W", "X", "Y", "Z">>
LowerCase == <<"a", "b", "c", "d", "e", "f", "g", "h", "i", "j", "k", "l", "m", "n", "o", "p", "q", "r", "s", "t", "u", "v", "w", "x", "y", "z">>

\* str.lower() on one character
Lower(c) ==
    IF \E i \in 1..Len(UpperCase) : UpperCase[i] = c
    THEN LowerCase[CHOOSE i \in 1..Len(UpperCase) : UpperCase[i] = c]
    ELSE c
StrLower(s) == [i \in 1..Len(s) |-> Lower(s[i])]

\* p in s
Contains(s, p) ==
    \E i \in 0..(Len(s) - Len(p)) : \A j \in 1..Len(p) : s[i + j] = p[j]

\* s.split(',')
RECURSIVE SplitComma(_)
SplitComma(s) ==
    IF \A i \in 1..Len(s) : s[i] # ","
    THEN <<s>>
    ELSE LET k == CHOOSE i \in 1..Len(s) : s[i] = "," /\ \A j \in 1..(i - 1) : s[j] # ","
         IN  <<SubSeq(s, 1, k - 1)>> \o SplitComma(SubSeq(s, k + 1, Len(s)))

\* s.strip()
RECURSIVE Strip(_)
Strip(s) ==
    IF s = <<>> THEN s
    ELSE IF Head(s) = " " THEN Strip(Tail(s))
    ELSE IF s[Len(s)] = " " THEN Strip(SubSeq(s, 1, Len(s) - 1))
    ELSE s

\* ','.join(entries): how a PROXY_LIST value is written
RECURSIVE JoinComma(_)
JoinComma(entries) ==
    IF entries = <<>> THEN <<>>
    ELSE IF Len(entries) = 1 THEN entries[1]
    ELSE entries[1] \o <<",">> \o JoinComma(Tail(entries))

(***************************************************************************)
(* config.get_proxy_list                                                   *)
(***************************************************************************)
\* A route: a proxy URL, or None (direct).
None == [none |-> TRUE, url |-> <<>>]
Route(u) == [none |-> FALSE, url |-> u]

\* the for loop over proxy_list_str.split(',')
RECURSIVE AddEntries(_, _)
AddEntries(proxy_list, entries) ==
    IF entries = <<>> THEN proxy_list
    ELSE LET p == Strip(Head(entries))
         IN  IF p # <<>> /\ \A i \in 1..Len(proxy_list) : proxy_list[i] # Route(p)
             THEN AddEntries(Append(proxy_list, Route(p)), Tail(entries))
             ELSE AddEntries(proxy_list, Tail(entries))

\* a loop that appends every non-blank entry
RECURSIVE AddEntries_NoDedup(_, _)
AddEntries_NoDedup(proxy_list, entries) ==
    IF entries = <<>> THEN proxy_list
    ELSE LET p == Strip(Head(entries))
         IN  IF p # <<>>
             THEN AddEntries_NoDedup(Append(proxy_list, Route(p)), Tail(entries))
             ELSE AddEntries_NoDedup(proxy_list, Tail(entries))
get_proxy_list_NoDedup(e) ==
    LET single  == IF e.proxy # <<>> THEN <<Route(e.proxy)>> ELSE <<>>
        entries == IF e.proxy_list # <<>> THEN SplitComma(e.proxy_list) ELSE <<>>
        proxy_list == AddEntries_NoDedup(single, entries)
    IN  IF proxy_list # <<>> THEN proxy_list ELSE <<None>>

get_proxy_list(e) ==
    LET single  == IF e.proxy # <<>> THEN <<Route(e.proxy)>> ELSE <<>>
        entries == IF e.proxy_list # <<>> THEN SplitComma(e.proxy_list) ELSE <<>>
        proxy_list == AddEntries(single, entries)
    IN  IF proxy_list # <<>> THEN proxy_list ELSE <<None>>

(***************************************************************************)
(* config.is_user_allowed                                                  *)
(***************************************************************************)
Digits == <<"0", "1", "2", "3", "4", "5", "6", "7", "8", "9">>
IsDigit(c) == \E d \in 1..Len(Digits) : Digits[d] = c
DigitValue(c) == (CHOOSE d \in 1..Len(Digits) : Digits[d] = c) - 1

\* int(s) for a stripped s: an optional minus sign and decimal digits, or
\* ValueError (IsInt false)
IsInt(s) ==
    /\ s # <<>>
    /\ LET body == IF s[1] = "-" THEN Tail(s) ELSE s
       IN  body # <<>> /\ \A i \in 1..Len(body) : IsDigit(body[i])
RECURSIVE Decimal(_)
Decimal(s) == IF s = <<>> THEN 0
              ELSE 10 * Decimal(SubSeq(s, 1, Len(s) - 1)) + DigitValue(s[Len(s)])
IntOf(s) == IF s[1] = "-" THEN 0 - Decimal(Tail(s)) ELSE Decimal(s)

\* [x.strip() for x in allowed_ids.split(',') if x.strip()]
AllowedEntries(allowed_ids) ==
    LET es == SplitComma(allowed_ids)
    IN  SelectSeq([k \in 1..Len(es) |-> Strip(es[k])], LAMBDA x : x # <<>>)

\* is_user_allowed(chat_id) under ALLOWED_CHAT_IDS = allowed_ids
is_user_allowed(allowed_ids, chat_id) ==
    IF allowed_ids = <<>> THEN TRUE
    ELSE LET es == AllowedEntries(allowed_ids)
         IN  IF \E k \in 1..Len(es) : ~IsInt(es[k])
             THEN TRUE
             ELSE \E k \in 1..Len(es) : IntOf(es[k]) = chat_id

\* The values ALLOWED_CHAT_IDS takes in the model, and the chats that ask.
MaxIds == 2
IdEntryValues == { <<>>, <<"1">>, <<" ", "2">>, <<"1", "2">>, <<"-", "3">>, <<"x">> }
AllowedValues ==
    { JoinComma(es) : es \in UNION { [1..n -> IdEntryValues] : n \in 0..MaxIds } }
ChatIds == {1, 2, 12, 0 - 3, 7}

\* The values PROXY and PROXY_LIST take in the model.
ProxyValues == { <<>>, <<"a">> }
EntryValues == { <<>>, <<"a">>, <<" ", "b">>, <<"c", " ">> }
ProxyListValues ==
    { JoinComma(es) : es \in UNION { [1..n -> EntryValues] : n \in 0..MaxEntries } }

(***************************************************************************)
(* queue_processor.tg_retry                                                *)
(***************************************************************************)
\* max_retries = 10
max_retries == 10
\* asyncio.sleep(5) for a flood signal found in the message of a TelegramError
FloodBackoff == 5
\* asyncio.sleep(2) for any other exception
ErrorBackoff == 2

\* What one invocation of the wrapped call can do: return, or raise an
\* exception of one of the classes tg_retry tells apart. RetryAfter is a
\* subclass of TelegramError and carries retry_after; flood says whether
\* "Flood control" occurs in str(e).
NoError == [cls |-> "none", flood |-> FALSE, retry_after |-> 0]
TgErrors ==
    [cls : {"RetryAfter"}, flood : {TRUE}, retry_after : 1..MaxWait]
    \cup [cls : {"TelegramError", "Exception"}, flood : BOOLEAN, retry_after : {0}]

\* A handler that backs off for the fixed flood interval whatever wait the
\* RetryAfter error carries.
TgHandler_FixedBackoff(e, attempt) ==
    IF e.cls = "TelegramError" /\ ~e.flood
    THEN [act |-> "raise", dur |-> 0]
    ELSE IF e.cls = "Exception" /\ attempt = max_retries - 1
    THEN [act |-> "raise", dur |-> 0]
    ELSE [act |-> "sleep", dur |-> IF e.cls = "Exception" THEN ErrorBackoff ELSE FloodBackoff]

\* A handler that keeps the last attempt's unclassified exception to itself.
TgHandler_SwallowLast(e, attempt) ==
    IF e.cls = "RetryAfter"
    THEN [act |-> "sleep", dur |-> e.retry_after]
    ELSE IF e.cls = "TelegramError" /\ ~e.flood
    THEN [act |-> "raise", dur |-> 0]
    ELSE [act |-> "sleep", dur |-> IF e.flood /\ e.cls = "TelegramError" THEN FloodBackoff ELSE ErrorBackoff]

\* The except clauses of tg_retry, in source order: what the handler does
\* with exception e raised by the call of loop index attempt.
TgHandler(e, attempt) ==
    IF e.cls = "RetryAfter"
    THEN [act |-> "sleep", dur |-> e.retry_after]
    ELSE IF e.cls = "TelegramError"
    THEN IF e.flood
         THEN [act |-> "sleep", dur |-> FloodBackoff]
         ELSE [act |-> "raise", dur |-> 0]
    ELSE IF attempt = max_retries - 1
         THEN [act |-> "raise", dur |-> 0]
         ELSE [act |-> "sleep", dur |-> ErrorBackoff]

\* tg: the state of one tg_retry call.
\*   pc       "call" (about to await func), "sleep" (in asyncio.sleep),
\*            "returned", "raised"
\*   attempt  the loop index of range(max_retries)
\*   calls    how many times func has been invoked
\*   err      the exception of the latest failed invocation, errCall its number
\*   dur      the duration of the sleep in progress
\*   slept    the duration of the latest completed sleep (0: none yet)
\*   exc      what reached the caller: "none", "same" (raise e) or
\*            "MaxRetries" (Exception("Max retries exceeded ..."))
TgStart ==
    [pc |-> "call", attempt |-> 0, calls |-> 0, err |-> NoError, errCall |-> 0,
     dur |-> 0, slept |-> 0, exc |-> "none"]

\* return await func(*args, **kwargs)
TgCallReturns ==
    /\ tg.pc = "call"
    /\ tg' = [tg EXCEPT !.pc = "returned", !.calls = @ + 1]

\* await func(...) raises e: the matching except clause runs
TgCallRaises ==
    /\ tg.pc = "call"
    /\ \E e \in TgErrors :
         LET h == TgHandler(e, tg.attempt) IN
         tg' = [tg EXCEPT !.calls = @ + 1, !.err = e, !.errCall = tg.calls + 1,
                          !.pc = IF h.act = "sleep" THEN "sleep" ELSE "raised",
                          !.dur = h.dur,
                          !.exc = IF h.act = "sleep" THEN "none" ELSE "same"]

\* asyncio.sleep returns: the for loop takes its next index, or is exhausted
\* and the statement after the loop raises
TgWake ==
    /\ tg.pc = "sleep"
    /\ tg' = [tg EXCEPT !.slept = tg.dur, !.dur = 0, !.attempt = @ + 1,
                        !.pc  = IF tg.attempt + 1 < max_retries THEN "call" ELSE "raised",
                        !.exc = IF tg.attempt + 1 < max_retries THEN "none" ELSE "MaxRetries"]

(***************************************************************************)
(* Job identifiers, files, the cancellation registry.                      *)
(***************************************************************************)
\* message_id of a job that answers no message (a subscription job)
NoneMsg == 0

\* process_queue: f"{chat_id}_{message_id}_{int(time.time())}"
VideoTaskId(chat_id, message_id, t) ==
    [kind |-> "v", chat |-> chat_id, msg |-> message_id, t |-> t]
\* no task_id (download_content's default task_id=None)
NoTask == [kind |-> "none", chat |-> 0, msg |-> 0, t |-> 0]

\* The videos the extractor knows.
VideoIds == {"v1", "v2"}

\* A file of DOWNLOAD_DIR. The extractor names its output
\* "%(title)s [%(id)s].%(ext)s": by the video, not by the job (tid = NoTask).
\*   kind  "part" (a partial download), "mp4", "m4a", "thumb" (the .jpg),
\*         "split" (part n of a split video), "seg" (segment n of a live job)
NoFile == [kind |-> "none", vid |-> "-", tid |-> NoTask, n |-> 0]
OutFile(kind, vid) == [kind |-> kind, vid |-> vid, tid |-> NoTask, n |-> 0]

\* glob.glob(os.path.join(DOWNLOAD_DIR, f"*{task_id}*")): the files whose
\* name contains the text of task_id
GlobTask(files, task_id) == { f \in files : f.tid = task_id }

\* The callback data of the Cancel button update_status_msg attaches:
\* f"cancel:{task_id}".
CancelData(task_id) == [prefix |-> "cancel:", rest |-> task_id]

(***************************************************************************)
(* Status messages: update_status_msg of process_queue and                 *)
(* process_playlist_queue.                                                 *)
(***************************************************************************)
\* the suppression window of update_status_msg, in seconds
StatusInterval == 20

\* A text is a tuple: a tag, then its parameters.
Text(tag) == <<tag>>

\* The transport calls of one step (tg_retry of a send, an edit or a
\* delete; a streaming upload) each return (TRUE) or raise (FALSE). A
\* behaviour has hist.budget steps in which one call raises.
OkChoices(n) ==
    IF hist.faults < hist.budget
    THEN { t \in [1..n -> BOOLEAN] : Cardinality({ k \in 1..n : ~t[k] }) <= 1 }
    ELSE { [k \in 1..n |-> TRUE] }
Charge(h, t) ==
    IF \E k \in DOMAIN t : ~t[k] THEN [h EXCEPT !.faults = @ + 1] ELSE h
FailureTags == {"dlfail", "error", "uploaderr", "lowdisk", "partfail", "skipped"}

\* A Message object held by the code: the message's id and the text it was
\* created with (the object does not change when the message is edited).
NoMsg == [id |-> 0, text |-> <<>>]

\* A message as its chat shows it: cancel is the task_id of its Cancel
\* button (NoTask: no button); job is the job it was written for.
ChatMessage(chat, text, cancel, job) ==
    [chat |-> chat, text |-> text, cancel |-> cancel, deleted |-> FALSE, job |-> job]

\* The cells of a worker frame that its update_status_msg closure reads
\* and writes, and the other locals of the loop body.
\*   alive     the while loop is running
\*   defined   update_status_msg has been bound (by an earlier iteration)
\*   channel   channel_name: <<>> while unbound, else <<name>>
\*   job       the serial number of the job being processed (history)
Unbound == <<>>
WorkerStart ==
    [pc |-> "get", alive |-> TRUE, defined |-> FALSE, job |-> 0,
     chat_id |-> 0, url |-> "-", message_id |-> NoneMsg, channel |-> Unbound,
     audio_only |-> FALSE, task_id |-> NoTask,
     status_msg |-> NoMsg, last_edit_time |-> 0,
     file_path |-> NoFile, thumb_path |-> NoFile,
     entries |-> <<>>, idx |-> 0]

\* a reporter without the suppression window
update_status_msg_NoWindow(c, ms, t, text, force, show_cancel, ok) ==
    LET markup == IF show_cancel THEN c.task_id ELSE NoTask
        same   == [cells |-> c, msgs |-> ms, out |-> FALSE]
    IN  IF c.status_msg # NoMsg
        THEN IF c.status_msg.text # text /\ ok /\ ~ms[c.status_msg.id].deleted
             THEN [cells |-> [c EXCEPT !.last_edit_time = t],
                   msgs  |-> [ms EXCEPT ![c.status_msg.id].text = text,
                                        ![c.status_msg.id].cancel = markup],
                   out   |-> TRUE]
             ELSE same
        ELSE IF ok
             THEN [cells |-> [c EXCEPT !.last_edit_time = t,
                                       !.status_msg = [id |-> Len(ms) + 1, text |-> text]],
                   msgs  |-> Append(ms, ChatMessage(c.chat_id, text, markup, c.job)),
                   out   |-> TRUE]
             ELSE same

\* update_status_msg(text, force, show_cancel) on the cells c of a frame at
\* time t, the transport call (tg_retry of edit_text or send_message)
\* succeeding (ok) or raising. Returns the cells, the messages, and whether
\* a send or edit went out.
update_status_msg(c, ms, t, text, force, show_cancel, ok) ==
    LET markup == IF show_cancel THEN c.task_id ELSE NoTask
        same   == [cells |-> c, msgs |-> ms, out |-> FALSE]
    IN  IF ~force /\ (t - c.last_edit_time < StatusInterval) THEN same
        ELSE IF c.status_msg # NoMsg
        THEN IF c.status_msg.text # text
             THEN IF ok /\ ~ms[c.status_msg.id].deleted
                  THEN [cells |-> [c EXCEPT !.last_edit_time = t],
                        msgs  |-> [ms EXCEPT ![c.status_msg.id].text = text,
                                             ![c.status_msg.id].cancel = markup],
                        out   |-> TRUE]
                  ELSE same
             ELSE same
        ELSE IF ok
             THEN [cells |-> [c EXCEPT !.last_edit_time = t,
                                       !.status_msg = [id |-> Len(ms) + 1, text |-> text]],
                   msgs  |-> Append(ms, ChatMessage(c.chat_id, text, markup, c.job)),
                   out   |-> TRUE]
             ELSE same

\* bot.send_message(chat_id, text): a new message in the chat
send_message(ms, chat, text, job) == Append(ms, ChatMessage(chat, text, NoTask, job))

\* the failure reports delivered for each job (history)
Reported(h, job, text, out) ==
    IF out /\ text[1] \in FailureTags
    THEN [h EXCEPT !.reports[job] = @ + 1]
    ELSE h

(***************************************************************************)
(* downloader.is_geo_restricted_error                                      *)
(***************************************************************************)
GEO_RESTRICTION_ERRORS ==
    << <<"V", "i", "d", "e", "o", " ", "u", "n", "a", "v", "a", "i", "l", "a", "b", "l", "e">>,
       <<"i", "s", " ", "n", "o", "t", " ", "a", "v", "a", "i", "l", "a", "b", "l", "e", " ", "i", "n", " ", "y", "o", "u", "r", " ", "c", "o", "u", "n", "t", "r", "y">>,
       <<"n", "o", "t", " ", "m", "a", "d", "e", " ", "t", "h", "i", "s", " ", "v", "i", "d", "e", "o", " ", "a", "v", "a", "i", "l", "a", "b", "l", "e", " ", "i", "n", " ", "y", "o", "u", "r", " ", "c", "o", "u", "n", "t", "r", "y">>,
       <<"a", "v", "a", "i", "l", "a", "b", "l", "e", " ", "i", "n", " ", "y", "o", "u", "r", " ", "c", "o", "u", "n", "t", "r", "y">>,
       <<"g", "e", "o">>,
       <<"b", "l", "o", "c", "k", "e", "d">>,
       <<"n", "o", "t", " ", "a", "v", "a", "i", "l", "a", "b", "l", "e">>,
       <<"S", "i", "g", "n", " ", "i", "n", " ", "t", "o", " ", "c", "o", "n", "f", "i", "r", "m", " ", "y", "o", "u", "r", " ", "a", "g", "e">>,
       <<"T", "h", "i", "s", " ", "v", "i", "d", "e", "o", " ", "i", "s", " ", "n", "o", "t", " ", "a", "v", "a", "i", "l", "a", "b", "l", "e">>,
       <<"P", "r", "i", "v", "a", "t", "e", " ", "v", "i", "d", "e", "o">>,
       <<"r", "e", "m", "o", "v", "e", "d", " ", "b", "y", " ", "t", "h", "e", " ", "u", "p", "l", "o", "a", "d", "e", "r">>,
       <<"u", "p", "l", "o", "a", "d", "e", "r", " ", "h", "a", "s", " ", "n", "o", "t", " ", "m", "a", "d", "e", " ", "t", "h", "i", "s", " ", "v", "i", "d", "e", "o", " ", "a", "v", "a", "i", "l", "a", "b", "l", "e">>,
       <<"c", "o", "u", "n", "t", "r", "y">> >>

\* The messages of the errors the extractor raises in the model: three
\* restriction messages, a network error, an HTTP error, and the exception
\* progress_adapter raises from the progress hook.
ErrText(e) ==
    CASE e = "private" -> <<"P", "r", "i", "v", "a", "t", "e", " ", "v", "i", "d", "e", "o">>
      [] e = "country" -> <<"T", "h", "i", "s", " ", "v", "i", "d", "e", "o", " ", "i", "s", " ", "n", "o", "t", " ", "a", "v", "a", "i", "l", "a", "b", "l", "e", " ", "i", "n", " ", "y", "o", "u", "r", " ", "c", "o", "u", "n", "t", "r", "y">>
      [] e = "age" -> <<"S", "i", "g", "n", " ", "i", "n", " ", "t", "o", " ", "c", "o", "n", "f", "i", "r", "m", " ", "y", "o", "u", "r", " ", "a", "g", "e">>
      [] e = "dns" -> <<"C", "o", "u", "l", "d", " ", "n", "o", "t", " ", "r", "e", "s", "o", "l", "v", "e", " ", "h", "o", "s", "t">>
      [] e = "http404" -> <<"H", "T", "T", "P", " ", "E", "r", "r", "o", "r", " ", "4", "0", "4", ":", " ", "N", "o", "t", " ", "F", "o", "u", "n", "d">>
      [] e = "cancelled" -> <<"D", "o", "w", "n", "l", "o", "a", "d", " ", "c", "a", "n", "c", "e", "l", "l", "e", "d", " ", "b", "y", " ", "u", "s", "e", "r">>
ExtractorErrors == {"private", "country", "dns", "http404"}
ErrorIds == {"private", "country", "age", "dns", "http404", "cancelled"}

is_geo_restricted_error(error_msg) ==
    LET error_lower == StrLower(error_msg)
    IN  \E k \in 1..Len(GEO_RESTRICTION_ERRORS) :
            Contains(error_lower, StrLower(GEO_RESTRICTION_ERRORS[k]))

\* is_geo_restricted_error(str(e)) of each error of the model
GeoRestricted == [e \in ErrorIds |-> is_geo_restricted_error(ErrText(e))]

(***************************************************************************)
(* downloader.download_content                                             *)
(***************************************************************************)
Callers == {"video", "playlist"}

NoResult == [filename |-> NoFile, thumb_path |-> NoFile, via |-> 0]
NoExc == [kind |-> "none", err |-> "none", n |-> 0]

\* dl[c]: the download_content call of caller c.
\*   pc          "idle", "extract" (inside ydl.extract_info on route
\*               proxy_idx), "returned", "raised"
\*   proxy_list  get_proxy_list() of this call; proxy_idx the loop index
\*   tried       the routes handed to the extractor, in order
\*   outcomes    what each extractor call did: "ok" or the error raised
\*   ticks       progress ticks of the current extractor call
\*   written     the files the extractor wrote during this call
\*   ret         (filename, thumb_path) returned, via the route it came by
\*   exc         the exception raised: "same" (raise e), "hint" (configure
\*               a proxy), "generic" (Download failed), "all" (All n proxies
\*               failed)
DlIdle ==
    [pc |-> "idle", task_id |-> NoTask, vid |-> "-", audio_only |-> FALSE,
     progress_callback |-> FALSE, proxy_list |-> <<>>, proxy_idx |-> 0, tried |-> <<>>, outcomes |-> <<>>,
     ticks |-> 0, written |-> {}, last_error |-> "none",
     ret |-> NoResult, exc |-> NoExc]

\* the call: proxy_list = get_proxy_list(), and the first loop index
DlEnter(task_id, vid, audio_only, progress_callback) ==
    LET proxy_list == get_proxy_list(env)
    IN  [DlIdle EXCEPT !.pc = "extract", !.task_id = task_id, !.vid = vid,
                       !.audio_only = audio_only,
                       !.progress_callback = progress_callback,
                       !.proxy_list = proxy_list,
                       !.proxy_idx = 0, !.tried = <<proxy_list[1]>>]

\* the statements after the for loop: every route raised a restriction error
DlExhausted_AnySingleRoute(d) ==
    IF Len(d.proxy_list) = 1
    THEN IF GeoRestricted[d.last_error]
         THEN [kind |-> "hint", err |-> d.last_error, n |-> 1]
         ELSE [kind |-> "generic", err |-> d.last_error, n |-> 1]
    ELSE [kind |-> "all", err |-> d.last_error, n |-> Len(d.proxy_list)]

DlExhausted(d) ==
    IF Len(d.proxy_list) = 1 /\ d.proxy_list[1] = None
    THEN IF GeoRestricted[d.last_error]
         THEN [kind |-> "hint", err |-> d.last_error, n |-> 1]
         ELSE [kind |-> "generic", err |-> d.last_error, n |-> 1]
    ELSE [kind |-> "all", err |-> d.last_error, n |-> Len(d.proxy_list)]

\* the next loop index after a restriction error, or the end of the loop
DlContinue(d, e) ==
    LET d1 == [d EXCEPT !.last_error = e, !.outcomes = Append(@, e), !.ticks = 0]
    IN  IF d.proxy_idx + 1 < Len(d.proxy_list)
        THEN [d1 EXCEPT !.proxy_idx = @ + 1,
                        !.tried = Append(@, d.proxy_list[d.proxy_idx + 2])]
        ELSE [d1 EXCEPT !.pc = "raised", !.exc = DlExhausted(d1)]

\* a handler that goes on to the next route whatever the error is
DlOnError_AlwaysContinue(d, e) == DlContinue(d, e)

\* a handler that gives up on the first error
DlOnError_NeverContinue(d, e) ==
    [d EXCEPT !.last_error = e, !.outcomes = Append(@, e), !.ticks = 0,
              !.pc = "raised", !.exc = [kind |-> "same", err |-> e, n |-> 0]]

\* except Exception as e: of the extractor call on route proxy_idx
DlOnError(d, e) ==
    IF GeoRestricted[e]
    THEN DlContinue(d, e)
    ELSE [d EXCEPT !.last_error = e, !.outcomes = Append(@, e), !.ticks = 0,
                   !.pc = "raised", !.exc = [kind |-> "same", err |-> e, n |-> 0]]

\* the file name download_content returns, and the thumbnail it finds
DlFilename(d) == OutFile(IF d.audio_only THEN "m4a" ELSE "mp4", d.vid)
DlThumb(d, files) ==
    IF OutFile("thumb", d.vid) \in files THEN OutFile("thumb", d.vid) ELSE NoFile

\* The extractor writes the thumbnail (writethumbnail) or starts the
\* media file.
ExtractorWrites(c) ==
    /\ dl[c].pc = "extract"
    /\ \E f \in {OutFile("thumb", dl[c].vid), OutFile("part", dl[c].vid)} :
         /\ f \notin dl[c].written
         /\ disk' = disk \cup {f}
         /\ dl' = [dl EXCEPT ![c].written = @ \cup {f}]

\* progress_adapter(d), called by the extractor while it downloads: it
\* raises when the job is marked cancelled, and the extractor call fails
\* with that exception. Otherwise it calls the worker's progress_cb (when
\* one was passed), which checks the mark again and hands
\* update_status_msg(progress, force=False, show_cancel=True) to the event
\* loop; the update is taken to run at once.
DlTick(c) ==
    /\ dl[c].pc = "extract"
    /\ OutFile("part", dl[c].vid) \in dl[c].written
    /\ dl[c].ticks < MaxTicks
    /\ \E ok \in OkChoices(1) :
         LET d == dl[c]
             text == Text("progress")
             u == update_status_msg(w[c], msgs, now, text, FALSE, TRUE, ok[1])
         IN  IF d.task_id # NoTask /\ cancelled_tasks # {} /\ d.task_id \in cancelled_tasks
             THEN /\ dl' = [dl EXCEPT ![c] = DlOnError(d, "cancelled")]
                  /\ hist' = [hist EXCEPT !.polled = @ \cup
                                {[job |-> w[c].job, point |-> "tick", aborted |->
                                    DlOnError(d, "cancelled").pc = "raised"]}]
                  /\ ok[1]
                  /\ UNCHANGED <<w, msgs>>
             ELSE IF ~d.progress_callback
             THEN /\ dl' = [dl EXCEPT ![c].ticks = @ + 1]
                  /\ ok[1]
                  /\ UNCHANGED <<w, msgs, hist>>
             ELSE IF w[c].task_id \in cancelled_tasks
             THEN /\ dl' = [dl EXCEPT ![c] = DlOnError(d, "cancelled")]
                  /\ ok[1]
                  /\ UNCHANGED <<w, msgs, hist>>
             ELSE /\ dl' = [dl EXCEPT ![c].ticks = @ + 1]
                  /\ w' = [w EXCEPT ![c] = u.cells]
                  /\ msgs' = u.msgs
                  /\ hist' = Charge(Reported(hist, w[c].job, text, u.out), ok)

\* ydl.extract_info raises
ExtractorFails(c, e) ==
    /\ dl[c].pc = "extract"
    /\ dl' = [dl EXCEPT ![c] = DlOnError(dl[c], e)]

\* ydl.extract_info returns: the media file is complete, and download_content
\* returns (filename, title, id, thumb_path)
ExtractorSucceeds(c) ==
    /\ dl[c].pc = "extract"
    /\ LET files == (disk \ {OutFile("part", dl[c].vid)}) \cup {DlFilename(dl[c])}
       IN  /\ disk' = files
           /\ dl' = [dl EXCEPT ![c].pc = "returned",
                               ![c].outcomes = Append(@, "ok"),
                               ![c].written = (@ \ {OutFile("part", dl[c].vid)})
                                              \cup {DlFilename(dl[c])},
                               ![c].ret = [filename |-> DlFilename(dl[c]),
                                           thumb_path |-> DlThumb(dl[c], files),
                                           via |-> dl[c].proxy_idx + 1]]

(***************************************************************************)
(* uploader.split_video                                                    *)
(***************************************************************************)
STANDARD_API_LIMIT == 50 * 1024 * 1024 - 1024 * 1024
LOCAL_API_LIMIT == 2000 * 1024 * 1024 - 1024 * 1024 * 50

\* api_url and 'api.telegram.org' not in api_url, for the API_URL values
\* of the model: "" (set but empty), "official" (the default,
\* https://api.telegram.org/bot) and "local" (a self-hosted server)
ApiUrls == {"", "official", "local"}
is_local_api(api_url) == api_url # "" /\ api_url # "official"

\* part i+1 of file_path: f"{base}_part{i+1}{ext}"
SplitPart(file_path, n) == [file_path EXCEPT !.kind = "split", !.n = n]

\* max_size_bytes when the caller passes none: the limit of the API in use
ActiveLimit(api_url) ==
    IF is_local_api(api_url) THEN LOCAL_API_LIMIT ELSE STANDARD_API_LIMIT

\* What ffmpeg reports about a file: its Duration line ("none": no such
\* line; "N/A": a Duration line that is no h:m:s), and the part numbers
\* whose ffmpeg call exits 0 and leaves its output file.
\* The result: [raised, parts, calls], calls the number of ffmpeg runs.
\* SplitOversized is the code after the size check.
SplitOversized(file_path, file_size, max_size_bytes, duration, ok_parts) ==
    LET num_parts == (file_size \div max_size_bytes) + 1
        output_parts ==
            { n \in 1..num_parts : n \in ok_parts }
        RECURSIVE InOrder(_)
        InOrder(n) == IF n > num_parts THEN <<>>
                      ELSE (IF n \in output_parts THEN <<SplitPart(file_path, n)>> ELSE <<>>)
                           \o InOrder(n + 1)
    IN  IF duration = "none" THEN [raised |-> FALSE, parts |-> <<file_path>>, calls |-> 1]
        ELSE IF duration = "N/A" THEN [raised |-> TRUE, parts |-> <<>>, calls |-> 1]
        ELSE IF output_parts # {}
        THEN [raised |-> FALSE, parts |-> InOrder(1), calls |-> 1 + num_parts]
        ELSE [raised |-> FALSE, parts |-> <<file_path>>, calls |-> 1 + num_parts]

\* a splitter that also splits a file of exactly the limit
split_video_StrictCeiling(file_path, exists, file_size, api_url, duration, ok_parts) ==
    IF ~exists THEN [raised |-> TRUE, parts |-> <<>>, calls |-> 0]
    ELSE IF file_size < ActiveLimit(api_url)
    THEN [raised |-> FALSE, parts |-> <<file_path>>, calls |-> 0]
    ELSE SplitOversized(file_path, file_size, ActiveLimit(api_url), duration, ok_parts)

split_video(file_path, exists, file_size, api_url, duration, ok_parts) ==
    IF ~exists THEN [raised |-> TRUE, parts |-> <<>>, calls |-> 0]
    ELSE IF file_size <= ActiveLimit(api_url)
    THEN [raised |-> FALSE, parts |-> <<file_path>>, calls |-> 0]
    ELSE SplitOversized(file_path, file_size, ActiveLimit(api_url), duration, ok_parts)

\* The sizes, in bytes, of the files of the model.
MB == 1024 * 1024
FileSizes == {10 * MB, STANDARD_API_LIMIT, STANDARD_API_LIMIT + 1, 97 * MB, 120 * MB,
              LOCAL_API_LIMIT}
Durations == {"none", "N/A", "0:03:00"}

(***************************************************************************)
(* queue_processor.handle_upload                                           *)
(***************************************************************************)
\* the defaults of the caller's update_status_msg closure for show_cancel
\* (process_queue: False; process_playlist_queue: True)
ShowCancelDefault(c) == c = "playlist"

\* the largest part number a split produces in the model
MaxParts == 3

\* hu[c]: the handle_upload call of caller c.
\*   pc     "idle", "audio", "split", "part", "part_report", "cleanup",
\*          "except", "returned"
\*   files_to_upload, i   the parts and the loop index
\*   sent   the files whose transfer succeeded (history)
\*   made   the part files split_video created (history)
\*   split  the split_video call of the splitter taken alone (history)
NoSplit == [called |-> FALSE]
HuIdle ==
    [pc |-> "idle", file_path |-> NoFile, thumb_path |-> NoFile,
     audio_only |-> FALSE, files_to_upload |-> <<>>, i |-> 0,
     sent |-> <<>>, made |-> {}, split |-> NoSplit]

HuEnter(file_path, thumb_path, audio_only) ==
    [HuIdle EXCEPT !.pc = IF audio_only THEN "audio" ELSE "split",
                   !.file_path = file_path, !.thumb_path = thumb_path,
                   !.audio_only = audio_only]

\* thumb_path and os.path.exists(thumb_path)
ThumbExists(h, files) == h.thumb_path # NoFile /\ h.thumb_path \in files

\* The files left by a transfer of h's job that succeeded:
\* upload_video_streaming and upload_audio_streaming (the local API) remove
\* the thumbnail after a successful POST; bot.send_video/send_audio do not.
AfterTransfer(h, files) ==
    IF is_local_api(env.api_url) /\ ThumbExists(h, files)
    THEN files \ {h.thumb_path}
    ELSE files

\* the code after the for loop, up to the "Cleaning up" status call
HuLoopDone(h, files) ==
    [hu |-> [h EXCEPT !.pc = "cleanup"],
     disk |-> IF ThumbExists(h, files) THEN files \ {h.thumb_path} ELSE files]

\* the end of one pass of the for loop over files_to_upload
HuAfterPart(h, files) ==
    IF h.i + 1 < Len(h.files_to_upload)
    THEN [hu |-> [h EXCEPT !.i = @ + 1, !.pc = "part"], disk |-> files]
    ELSE HuLoopDone([h EXCEPT !.i = @ + 1], files)

\* tg_retry facing a call that raises RetryAfter floods times and then
\* returns: whether tg_retry returns
RECURSIVE tg_retry_floods(_, _)
tg_retry_floods(floods, attempt) ==
    IF attempt >= max_retries THEN FALSE
    ELSE IF floods = 0 THEN TRUE
    ELSE /\ TgHandler([cls |-> "RetryAfter", flood |-> TRUE, retry_after |-> 1],
                      attempt).act = "sleep"
         /\ tg_retry_floods(floods - 1, attempt + 1)

\* One transfer of handle_upload whose endpoint answers floods requests
\* with flood control before it accepts the file: on the local API
\* upload_video_streaming / upload_audio_streaming is awaited as it is and
\* raises Exception("Telegram API error: ...") for any answer that is not
\* ok; otherwise bot.send_video / bot.send_audio is called through tg_retry.
Transferred(floods) ==
    IF is_local_api(env.api_url) THEN floods = 0 ELSE tg_retry_floods(floods, 0)

\* the audio branch: the status call, the transfer, the removal of the file
\* ok[1], ok[2]: whether the status call and the transfer fail for a reason
\* other than flood control; floods: the flood-control answers the endpoint
\* gives to the transfer before it accepts the file
HuSendAudioOn(c, ok, floods) ==
    LET h == hu[c]
        text == Text("uploading_audio")
        u == update_status_msg(w[c], msgs, now, text, TRUE, ShowCancelDefault(c), ok[1])
        sent == ok[2] /\ Transferred(floods) /\ h.file_path \in disk
    IN  /\ w' = [w EXCEPT ![c] = u.cells]
        /\ msgs' = u.msgs
        /\ disk' = IF sent THEN AfterTransfer(h, disk) \ {h.file_path} ELSE disk
        /\ hu' = [hu EXCEPT ![c].pc = IF sent THEN "returned" ELSE "except",
                            ![c].sent = IF sent THEN <<h.file_path>> ELSE <<>>]
        /\ hist' = [Charge(Reported(hist, w[c].job, text, u.out), ok)
                       EXCEPT !.floods = floods]
HuSendAudio(c) ==
    /\ hu[c].pc = "audio"
    /\ \E ok \in OkChoices(2) : HuSendAudioOn(c, ok, 0)
HuSendAudioFlooded(c, floods) ==
    /\ hu[c].pc = "audio"
    /\ \E ok \in OkChoices(2) : HuSendAudioOn(c, ok, floods)

\* the video branch up to the loop: the status call, check_ffmpeg, and
\* split_video on the worker thread
HuSplit(c, size, duration, ok_parts) ==
    /\ hu[c].pc = "split"
    /\ \E ok \in OkChoices(1) :
         LET h == hu[c]
             text == Text("checking_size")
             u == update_status_msg(w[c], msgs, now, text, TRUE, ShowCancelDefault(c), ok[1])
             r == IF env.ffmpeg
                  THEN split_video(h.file_path, h.file_path \in disk, size,
                                   env.api_url, duration, ok_parts)
                  ELSE [raised |-> FALSE, parts |-> <<h.file_path>>]
             made == { r.parts[k] : k \in 1..Len(r.parts) } \ {h.file_path}
         IN  /\ w' = [w EXCEPT ![c] = u.cells]
             /\ msgs' = u.msgs
             /\ disk' = disk \cup made
             /\ hu' = [hu EXCEPT ![c].pc = IF r.raised THEN "except" ELSE "part",
                                 ![c].files_to_upload = r.parts,
                                 ![c].made = made,
                                 ![c].i = 0]
             /\ hist' = Charge(Reported(hist, w[c].job, text, u.out), ok)

\* one pass of the loop: the status call and the transfer of part i
HuSendPartOn(c, ok, floods) ==
    LET h == hu[c]
        f == h.files_to_upload[h.i + 1]
        text == <<"uploading_part", h.i + 1, Len(h.files_to_upload)>>
        u == update_status_msg(w[c], msgs, now, text, TRUE, ShowCancelDefault(c), ok[1])
        sent == ok[2] /\ Transferred(floods) /\ f \in disk
        nxt == HuAfterPart([h EXCEPT !.sent = Append(@, f)], AfterTransfer(h, disk))
    IN  /\ w' = [w EXCEPT ![c] = u.cells]
        /\ msgs' = u.msgs
        /\ disk' = IF sent THEN nxt.disk ELSE disk
        /\ hu' = [hu EXCEPT ![c] = IF sent THEN nxt.hu
                                   ELSE [h EXCEPT !.pc = "part_report"]]
        /\ hist' = [Charge(Reported(hist, w[c].job, text, u.out), ok)
                       EXCEPT !.floods = floods]
HuSendPart(c) ==
    /\ hu[c].pc = "part"
    /\ \E ok \in OkChoices(2) : HuSendPartOn(c, ok, 0)
HuSendPartFlooded(c, floods) ==
    /\ hu[c].pc = "part"
    /\ \E ok \in OkChoices(2) : HuSendPartOn(c, ok, floods)

\* except Exception of one part: tg_retry(send_message, "Upload failed for
\* part i"); when that raises as well the outer handler takes over
HuReportPart(c) ==
    /\ hu[c].pc = "part_report"
    /\ \E ok \in OkChoices(1) :
         LET h == hu[c]
             text == <<"partfail", h.i + 1>>
             nxt == HuAfterPart(h, disk)
         IN  /\ msgs' = IF ok[1] THEN send_message(msgs, w[c].chat_id, text, w[c].job) ELSE msgs
             /\ disk' = IF ok[1] THEN nxt.disk ELSE disk
             /\ hu' = [hu EXCEPT ![c] = IF ok[1] THEN nxt.hu ELSE [h EXCEPT !.pc = "except"]]
             /\ hist' = Charge(Reported(hist, w[c].job, text, ok[1]), ok)
             /\ UNCHANGED w

\* "Cleaning up...", then the removal of the file and of the parts
HuCleanup(c) ==
    /\ hu[c].pc = "cleanup"
    /\ \E ok \in OkChoices(1) :
         LET h == hu[c]
             text == Text("cleaning")
             u == update_status_msg(w[c], msgs, now, text, TRUE, ShowCancelDefault(c), ok[1])
         IN  /\ w' = [w EXCEPT ![c] = u.cells]
             /\ msgs' = u.msgs
             /\ disk' = disk \ ({h.file_path}
                                \cup { h.files_to_upload[k] : k \in 1..Len(h.files_to_upload) })
             /\ hu' = [hu EXCEPT ![c].pc = "returned"]
             /\ hist' = Charge(Reported(hist, w[c].job, text, u.out), ok)

\* except Exception of handle_upload: the error goes to the status message
HuExcept(c) ==
    /\ hu[c].pc = "except"
    /\ \E ok \in OkChoices(1) :
         LET text == Text("uploaderr")
             u == update_status_msg(w[c], msgs, now, text, TRUE, ShowCancelDefault(c), ok[1])
         IN  /\ w' = [w EXCEPT ![c] = u.cells]
             /\ msgs' = u.msgs
             /\ hu' = [hu EXCEPT ![c].pc = "returned"]
             /\ hist' = Charge(Reported(hist, w[c].job, text, u.out), ok)
             /\ UNCHANGED disk

HandleUpload(c) ==
    \/ HuSendAudio(c)
    \/ \E size \in FileSizes, duration \in Durations, ok_parts \in SUBSET (1..MaxParts) :
         HuSplit(c, size, duration, ok_parts)
    \/ HuSendPart(c)
    \/ HuReportPart(c)
    \/ HuCleanup(c)
    \/ HuExcept(c)

(***************************************************************************)
(* Jobs, the two queues and their producers.                               *)
(***************************************************************************)
\* the jobs put on the queues in one behaviour: of the program, and of the
\* single-video worker taken alone
MaxJobs == 2
MaxVideoJobs == 1

\* A task tuple of request_queue or playlist_queue. len is the length of
\* the tuple; the fields past len are not in it. id numbers the tuples in
\* the order they were put (history).
Job(id, len, chat_id, url, message_id, audio_only, status_msg, channel_name, is_live) ==
    [id |-> id, len |-> len, chat_id |-> chat_id, url |-> url,
     message_id |-> message_id, audio_only |-> audio_only,
     status_msg |-> status_msg, channel_name |-> channel_name,
     is_live |-> is_live]

\* the chat of the commands, and the chat of the subscriber
UserChat == 1
SubscriberChat == 2

(***************************************************************************)
(* database.py: the subscriptions and processed_videos tables. The         *)
(* statements are taken to succeed; on an sqlite3 error add_subscription   *)
(* and remove_subscription return False and the readers return nothing.    *)
(***************************************************************************)
Channels == {"UC1", "UC2"}
ChannelNames == {"n1", "n2"}
Qualities == {720, 1080}
DbChats == {UserChat, SubscriberChat}

\* init_database: both tables empty. next_id is the AUTOINCREMENT counter
\* of subscriptions.
NoDb == [subscriptions |-> <<>>, next_id |-> 1, processed_videos |-> {}]

\* the rows of subscriptions other than the one of (channel_id, chat_id)
OtherRows(d, channel_id, chat_id) ==
    SelectSeq(d.subscriptions,
              LAMBDA r : ~(r.channel_id = channel_id /\ r.chat_id = chat_id))

SubscriptionRow(d, channel_id, channel_name, chat_id, max_quality, t) ==
    [id |-> d.next_id, channel_id |-> channel_id, channel_name |-> channel_name,
     chat_id |-> chat_id, max_quality |-> max_quality, created_at |-> t]

\* an INSERT that keeps the row UNIQUE(channel_id, chat_id) conflicts with
add_subscription_PlainInsert(d, channel_id, channel_name, chat_id, max_quality, t) ==
    [db |-> [d EXCEPT !.subscriptions =
                        Append(@, SubscriptionRow(d, channel_id, channel_name,
                                                  chat_id, max_quality, t)),
                      !.next_id = @ + 1],
     result |-> TRUE]

\* INSERT OR REPLACE: the row UNIQUE(channel_id, chat_id) conflicts with is
\* deleted, the new row gets the next id.
add_subscription(d, channel_id, channel_name, chat_id, max_quality, t) ==
    [db |-> [d EXCEPT !.subscriptions =
                        Append(OtherRows(d, channel_id, chat_id),
                               SubscriptionRow(d, channel_id, channel_name,
                                               chat_id, max_quality, t)),
                      !.next_id = @ + 1],
     result |-> TRUE]

\* DELETE ... WHERE channel_id = ? AND chat_id = ?; cursor.rowcount > 0
remove_subscription(d, channel_id, chat_id) ==
    [db |-> [d EXCEPT !.subscriptions = OtherRows(d, channel_id, chat_id)],
     result |-> Len(OtherRows(d, channel_id, chat_id)) < Len(d.subscriptions)]

\* SELECT channel_id, channel_name, chat_id, max_quality FROM subscriptions
get_all_subscriptions(d) ==
    [i \in 1..Len(d.subscriptions) |->
        <<d.subscriptions[i].channel_id, d.subscriptions[i].channel_name,
          d.subscriptions[i].chat_id, d.subscriptions[i].max_quality>>]

\* SELECT channel_id, channel_name, max_quality, created_at ... WHERE chat_id = ?
UserRows(d, chat_id) == SelectSeq(d.subscriptions, LAMBDA r : r.chat_id = chat_id)
get_user_subscriptions(d, chat_id) ==
    [i \in 1..Len(UserRows(d, chat_id)) |->
        <<UserRows(d, chat_id)[i].channel_id, UserRows(d, chat_id)[i].channel_name,
          UserRows(d, chat_id)[i].max_quality, UserRows(d, chat_id)[i].created_at>>]

\* SELECT 1 FROM processed_videos WHERE video_id = ?
is_video_processed(d, video_id) ==
    \E r \in d.processed_videos : r.video_id = video_id

\* INSERT OR IGNORE: video_id is UNIQUE
mark_video_processed(d, video_id, channel_id, t) ==
    IF is_video_processed(d, video_id) THEN d
    ELSE [d EXCEPT !.processed_videos =
                     @ \cup {[video_id |-> video_id, channel_id |-> channel_id,
                              processed_at |-> t]}]

\* DELETE FROM processed_videos WHERE processed_at < datetime('now', '-N days')
SecondsPerDay == 86400
cleanup_old_processed(d, t, days) ==
    [d EXCEPT !.processed_videos =
                { r \in @ : ~(r.processed_at < t - days * SecondsPerDay) }]

\* the history of a behaviour
\*   n        tuples put so far
\*   put      the ids put on each queue, in order
\*   started  the ids each worker dequeued, in order
\*   active   the ids whose loop iteration has begun and not ended
\*   reports  the failure reports that reached the chat, by job
\*   ended    how the last iteration of each worker ended
\*   polled   the poll points passed by a job whose id was marked
\*   calls    the update_status_msg calls made on a reporter taken alone
\*   checks   the is_user_allowed calls and their results
\*   ops      the /subscribe and /unsubscribe commands handled so far
\*   last     the last of them for each (channel_id, chat_id)
\*   ret      what the last database call returned, and whether the pair
\*            was listed before it
\*   marked   the video ids mark_video_processed was called with
\*   faults, budget   see OkChoices
\*   jobs     the tuples the producers put in this behaviour
NoEnd == [job |-> 0, how |-> "none", written |-> {}, exc |-> NoExc]
NoOp == [op |-> "none", channel_name |-> "", max_quality |-> 0]
NoRet == [op |-> "none", result |-> FALSE, listed |-> FALSE]
\* what the last disk check of process_queue had before it: the job, whether
\* its probe said live, and whether a quota is configured that the usage
\* plus the probe's estimate exceeds
NoSpace == [job |-> 0, is_live |-> FALSE, over |-> FALSE]

NoHistory(budget, jobs) ==
    [n |-> 0, jobs |-> jobs,
     put |-> [c \in Callers |-> <<>>],
     started |-> [c \in Callers |-> <<>>],
     active |-> [c \in Callers |-> {}],
     reports |-> [j \in 1..jobs |-> 0],
     ended |-> [c \in Callers |-> NoEnd],
     polled |-> {},
     calls |-> <<>>,
     checks |-> <<>>,
     space |-> NoSpace,
     floods |-> 0,
     ops |-> 0,
     last |-> [p \in Channels \X DbChats |-> NoOp],
     ret |-> NoRet,
     marked |-> {},
     faults |-> 0, budget |-> budget]

\* await queue.put(task)
Put(c, task) ==
    /\ queue' = [queue EXCEPT ![c] = Append(@, task)]
    /\ hist' = [hist EXCEPT !.n = task.id, !.put[c] = Append(@, task.id)]

\* a consumer that takes the newest task
Dequeue_Last(q) == [task |-> q[Len(q)], rest |-> SubSeq(q, 1, Len(q) - 1)]

\* await queue.get() on an asyncio.Queue
Dequeue(q) == [task |-> Head(q), rest |-> Tail(q)]

\* The /music command, the quality commands and handle_message of handlers
\* put (chat_id, url, message_id, max_height), max_height = -1 for audio,
\* and then send "Added to queue". process_queue also takes the older
\* (chat_id, url, message_id), with max_height = 1080.
PutCommand(url, len, audio_only) ==
    /\ hist.n < hist.jobs
    /\ len \in {3, 4}
    /\ audio_only => len = 4
    /\ LET id == hist.n + 1
       IN  /\ Put("video", Job(id, len, UserChat, url, id, audio_only,
                               NoMsg, Unbound, FALSE))
           /\ msgs' = send_message(msgs, UserChat, Text("queued"), id)
    /\ UNCHANGED <<co, scan, db, env, cancelled_tasks, disk, now, tg, dl, hu, w, live>>

\* subscription: a new video (a 6-tuple) or a live stream (a 7-tuple with
\* is_live = True) of a channel, announced to the subscriber first; the
\* announcement is the job's status_msg, message_id is None.
PutSubscription(url, is_live) ==
    /\ hist.n < hist.jobs
    /\ LET id == hist.n + 1
           text == Text(IF is_live THEN "live_found" ELSE "found")
           status_msg == [id |-> Len(msgs) + 1, text |-> text]
       IN  /\ msgs' = Append(msgs, ChatMessage(SubscriberChat, text, NoTask, id))
           /\ Put("video", Job(id, IF is_live THEN 7 ELSE 6, SubscriberChat, url,
                               NoneMsg, FALSE, status_msg, <<"channel">>, is_live))
    /\ UNCHANGED <<co, scan, db, env, cancelled_tasks, disk, now, tg, dl, hu, w, live>>

\* handlers.handle_playlist_command: (chat_id, url, message_id, max_height)
\* on playlist_queue, after its own "Playlist added to queue" message
PutPlaylist ==
    /\ hist.n < hist.jobs
    /\ LET id == hist.n + 1
       IN  /\ msgs' = send_message(msgs, UserChat, Text("playlist_queued"), id)
           /\ Put("playlist", Job(id, 4, UserChat, "playlist", id, FALSE,
                                  NoMsg, Unbound, FALSE))
    /\ UNCHANGED <<co, scan, db, env, cancelled_tasks, disk, now, tg, dl, hu, w, live>>

\* a tuple no producer of the repository makes: two fields
PutMalformed(c) ==
    /\ hist.n < hist.jobs
    /\ Put(c, Job(hist.n + 1, 2, UserChat, "v1", NoneMsg, FALSE, NoMsg, Unbound, FALSE))
    /\ UNCHANGED <<co, scan, db, env, cancelled_tasks, disk, now, msgs, tg, dl, hu, w, live>>

\* the clock when the process starts, and the steps it makes
T0 == 100
MaxClock == 1

\* time.time() moves on
Tick ==
    /\ now < T0 + MaxClock * StatusInterval
    /\ now' = now + StatusInterval
    /\ UNCHANGED <<co, scan, db, env, cancelled_tasks, disk, msgs, tg, dl, hu, w, queue, live, hist>>

\* handlers.cancel_callback for a press of the button of message i: data
\* that does not start with "cancel:" is ignored; the id goes into
\* cancelled_tasks; the message is edited to "Cancelling download..."
\* (without a button), a failure of the edit being logged.
cancel_callback(i) ==
    LET data == CancelData(msgs[i].cancel)
    IN  /\ data.prefix = "cancel:"
        /\ cancelled_tasks' = cancelled_tasks \cup {data.rest}
        /\ \E ok \in OkChoices(1) :
             /\ msgs' = IF ok[1] /\ ~msgs[i].deleted
                        THEN [msgs EXCEPT ![i].text = Text("cancelling"),
                                          ![i].cancel = NoTask]
                        ELSE msgs
             /\ hist' = Charge(hist, ok)

\* the user presses a Cancel button that a message shows
CancelPress ==
    /\ \E i \in 1..Len(msgs) :
         /\ msgs[i].cancel # NoTask
         /\ ~msgs[i].deleted
         /\ msgs[i].cancel \notin cancelled_tasks
         /\ cancel_callback(i)
    /\ UNCHANGED <<co, scan, db, env, disk, now, tg, dl, hu, w, queue, live>>

(***************************************************************************)
(* handlers.handle_subscribe and handle_unsubscribe. get_channel_info has  *)
(* resolved the channel URL to (channel_id, channel_name).                 *)
(***************************************************************************)
MaxDbOps == 3

\* the pair (channel_id, chat_id) is in the listing of the chat
Listed(d, channel_id, chat_id) ==
    \E i \in 1..Len(get_user_subscriptions(d, chat_id)) :
        get_user_subscriptions(d, chat_id)[i][1] = channel_id

handle_subscribe(chat_id, channel_id, channel_name, max_quality) ==
    /\ hist.ops < MaxDbOps
    /\ is_user_allowed(env.allowed_chat_ids, chat_id)
    /\ LET r == add_subscription(db, channel_id, channel_name, chat_id, max_quality, now)
       IN  /\ db' = r.db
           /\ msgs' = send_message(msgs, chat_id,
                                   Text(IF r.result THEN "subscribed" ELSE "subscribe_failed"), 0)
           /\ hist' = [hist EXCEPT
                         !.ops = @ + 1,
                         !.last[<<channel_id, chat_id>>] =
                             [op |-> "add", channel_name |-> channel_name,
                              max_quality |-> max_quality],
                         !.ret = [op |-> "add", result |-> r.result,
                                  listed |-> Listed(db, channel_id, chat_id)]]
    /\ UNCHANGED <<co, scan, env, cancelled_tasks, disk, now, tg, dl, hu, w, queue, live>>

handle_unsubscribe(chat_id, channel_id) ==
    /\ hist.ops < MaxDbOps
    /\ is_user_allowed(env.allowed_chat_ids, chat_id)
    /\ LET r == remove_subscription(db, channel_id, chat_id)
       IN  /\ db' = r.db
           /\ msgs' = send_message(msgs, chat_id,
                                   Text(IF r.result THEN "unsubscribed" ELSE "not_found"), 0)
           /\ hist' = [hist EXCEPT
                         !.ops = @ + 1,
                         !.last[<<channel_id, chat_id>>] = [NoOp EXCEPT !.op = "remove"],
                         !.ret = [op |-> "remove", result |-> r.result,
                                  listed |-> Listed(db, channel_id, chat_id)]]
    /\ UNCHANGED <<co, scan, env, cancelled_tasks, disk, now, tg, dl, hu, w, queue, live>>

(***************************************************************************)
(* subscription.py: the monitor loop and check_channel_now. An action is   *)
(* the code between two awaits that hand control to another task.          *)
(***************************************************************************)
\* cleanup_old_processed(days=30) in _monitor_loop
RetentionDays == 30
\* the days that pass in one step of the clock of SpecScan
WaitDays == 31
MaxPasses == 2
MaxChecks == 2

\* what get_latest_videos(channel_id, limit=3) returns: newest first; empty
\* also when the extractor failed
LatestValues == {<<>>, <<"v1">>, <<"v2", "v1">>}

\* the monitor (passes of its loop so far, how the last one ended) and the
\* check_channel_now calls made so far
NoScan == [passes |-> 0, last |-> "none", checks |-> <<>>]

\* One pass of _monitor_loop. _check_subscriptions returns at once when
\* there is no subscription, and cleanup_old_processed follows; with a
\* subscription its for statement unpacks five names from the four columns
\* get_all_subscriptions selects, the ValueError ends the try block and
\* neither _check_videos, _check_live nor cleanup_old_processed runs.
monitor_loop ==
    /\ scan.passes < MaxPasses
    /\ IF get_all_subscriptions(db) = <<>>
       THEN /\ db' = cleanup_old_processed(db, now, RetentionDays)
            /\ scan' = [scan EXCEPT !.passes = @ + 1, !.last = "cleaned"]
       ELSE /\ db' = db
            /\ scan' = [scan EXCEPT !.passes = @ + 1, !.last = "ValueError"]
    /\ UNCHANGED <<co, env, cancelled_tasks, disk, now, msgs, tg, dl, hu, w, queue, live, hist>>

\* the videos of the list from the first unprocessed one on
RECURSIVE FromFirstNew(_, _)
FromFirstNew(d, videos) ==
    IF videos = <<>> THEN <<>>
    ELSE IF is_video_processed(d, Head(videos)) THEN FromFirstNew(d, Tail(videos))
    ELSE videos

\* check_channel_now, the for loop up to its next await: the processed
\* videos are skipped, the first other one is marked and announced
\* (state "send"); without one the call returns new_count.
NowLoop(f, d, h, t) ==
    LET rest == FromFirstNew(d, f.videos)
    IN  IF rest = <<>>
        THEN [f |-> [f EXCEPT !.state = "returned", !.videos = <<>>], db |-> d, hist |-> h]
        ELSE [f |-> [f EXCEPT !.state = "send", !.video = Head(rest),
                               !.videos = Tail(rest), !.new_count = @ + 1],
              db |-> mark_video_processed(d, Head(rest), f.channel_id, t),
              hist |-> [h EXCEPT !.marked = @ \cup {Head(rest)}]]

\* check_channel_now is called for a subscription of the chat (its caller
\* is not in the repository; the arguments are the columns of the row) and
\* waits for get_latest_videos in the executor
check_channel_now(channel_id, chat_id) ==
    /\ Len(scan.checks) < MaxChecks
    /\ \E i \in 1..Len(get_all_subscriptions(db)) :
         LET row == get_all_subscriptions(db)[i]
         IN  /\ row[1] = channel_id /\ row[3] = chat_id
             /\ scan' = [scan EXCEPT !.checks =
                           Append(@, [state |-> "fetch", channel_id |-> channel_id,
                                      channel_name |-> row[2], chat_id |-> chat_id,
                                      max_quality |-> row[4], videos |-> <<>>,
                                      video |-> "", new_count |-> 0])]
    /\ UNCHANGED <<co, db, env, cancelled_tasks, disk, now, msgs, tg, dl, hu, w, queue, live, hist>>

\* get_latest_videos returns
NowFetched(k, videos) ==
    /\ k \in 1..Len(scan.checks)
    /\ scan.checks[k].state = "fetch"
    /\ LET r == NowLoop([scan.checks[k] EXCEPT !.videos = videos], db, hist, now)
       IN  /\ scan' = [scan EXCEPT !.checks[k] = r.f]
           /\ db' = r.db
           /\ hist' = r.hist
    /\ UNCHANGED <<co, env, cancelled_tasks, disk, now, msgs, tg, dl, hu, w, queue, live>>

\* send_message returns, the 6-tuple is put and the loop goes on; or it
\* raises, and check_channel_now logs and raises
NowSent(k, ok) ==
    /\ k \in 1..Len(scan.checks)
    /\ scan.checks[k].state = "send"
    /\ hist.n < hist.jobs
    /\ LET f == scan.checks[k]
           id == hist.n + 1
           status_msg == [id |-> Len(msgs) + 1, text |-> Text("found")]
           task == Job(id, 6, f.chat_id, f.video, NoneMsg, FALSE, status_msg,
                       <<f.channel_name>>, FALSE)
           h == [hist EXCEPT !.n = id, !.put["video"] = Append(@, id)]
           r == NowLoop(f, db, h, now)
       IN  IF ok
           THEN /\ msgs' = Append(msgs, ChatMessage(f.chat_id, Text("found"), NoTask, id))
                /\ queue' = [queue EXCEPT !["video"] = Append(@, task)]
                /\ scan' = [scan EXCEPT !.checks[k] = r.f]
                /\ db' = r.db
                /\ hist' = r.hist
           ELSE /\ scan' = [scan EXCEPT !.checks[k].state = "raised"]
                /\ UNCHANGED <<msgs, queue, db, hist>>
    /\ UNCHANGED <<co, env, cancelled_tasks, disk, now, tg, dl, hu, w, live>>

\* WaitDays days go by
DaysPass ==
    /\ now = T0
    /\ now' = now + WaitDays * SecondsPerDay
    /\ UNCHANGED <<co, scan, db, env, cancelled_tasks, disk, msgs, tg, dl, hu, w, queue, live, hist>>

(***************************************************************************)
(* The worker loops: queue_processor.process_queue ("video") and           *)
(* process_playlist_queue ("playlist"). An action is the code between two  *)
(* awaits that hand control to another task, with the status calls in it.  *)
(***************************************************************************)
\* process_playlist_queue: f"pl_{chat_id}_{int(time.time())}"
PlaylistTaskId(chat_id, t) == [kind |-> "pl", chat |-> chat_id, msg |-> 0, t |-> t]

\* What a step of worker c starts from: its frame, and the shared state it
\* may change.
Step(c) ==
    [w |-> w[c], msgs |-> msgs, hist |-> hist, cancelled |-> cancelled_tasks,
     dl |-> dl[c], live |-> live]

Commit(c, r, ok) ==
    /\ w' = [w EXCEPT ![c] = r.w]
    /\ msgs' = r.msgs
    /\ hist' = Charge(r.hist, ok)
    /\ cancelled_tasks' = r.cancelled
    /\ dl' = [dl EXCEPT ![c] = r.dl]
    /\ live' = r.live

\* await update_status_msg(text, force, show_cancel), as a report for job
UpdAs(r, job, text, force, show_cancel, ok) ==
    LET u == update_status_msg(r.w, r.msgs, now, text, force, show_cancel, ok)
    IN  [r EXCEPT !.w = u.cells, !.msgs = u.msgs,
                  !.hist = Reported(r.hist, job, text, u.out)]
Upd(r, text, force, show_cancel, ok) == UpdAs(r, r.w.job, text, force, show_cancel, ok)

\* a worker that leaves the status message in the chat
DeleteStatus_Never(r, ok) == r

\* if status_msg: try: await tg_retry(status_msg.delete) except: ...
DeleteStatus(r, ok) ==
    IF r.w.status_msg # NoMsg /\ ok
    THEN [r EXCEPT !.msgs[r.w.status_msg.id].deleted = TRUE]
    ELSE r

\* continue, or the end of the loop body: finally: task_done()
EndIteration(c, r, how) ==
    [r EXCEPT !.w.pc = "get",
              !.dl = DlIdle,
              !.hist.active[c] = @ \ {r.w.job},
              !.hist.ended[c] = [job |-> r.w.job, how |-> how,
                                 written |-> dl[c].written, exc |-> dl[c].exc]]

\* except Exception as e: await update_status_msg(f"Error: {e}", ...) at
\* the loop boundary. While no iteration has reached the def of
\* update_status_msg the name is unbound: the handler raises
\* UnboundLocalError, finally runs, and the exception leaves the while loop.
LoopExcept(c, r, ok) ==
    IF r.w.defined
    THEN EndIteration(c, Upd(r, Text("error"), TRUE, ShowCancelDefault(c), ok), "error")
    ELSE [EndIteration(c, r, "died") EXCEPT !.w.pc = "dead", !.w.alive = FALSE]

\* a live job's supervisor task
\*   pc       "resolve", "start", "loop", "done"
\*   capture  the ffmpeg process: "none", "running", "exited", "terminated"
\*   segs     the segment files it has written
\*   uploaded_segments   the paths handed to handle_upload, in order
\*   ended    how the task ended: "none", "nourl", "error" (the except
\*            clause), "swept" (after the final upload), "cancelled"
LiveTask(job, task_id) ==
    [pc |-> "resolve", job |-> job, task_id |-> task_id,
     capture |-> "none", segs |-> 0, uploaded_segments |-> <<>>, ended |-> "none"]

\* asyncio.create_task(process_live_stream(..., channel_name)); continue
SpawnLive(c, r) ==
    EndIteration(c, [r EXCEPT !.live = Append(@, LiveTask(r.w.job, r.w.task_id))], "live")

\* a poll point that job passed with its id marked, and whether it aborted
Polled(r, job, point, aborted) ==
    [r EXCEPT !.hist.polled = @ \cup {[job |-> job, point |-> point, aborted |-> aborted]}]

\* get_video_info(url) under wait_for(45): a timeout or an error (the
\* defaults), or the probe's is_live and filesize_mb
ProbeResults ==
    {[kind |-> "error", is_live |-> FALSE, filesize_mb |-> 0]}
    \cup [kind : {"info"}, is_live : BOOLEAN, filesize_mb : {0, 512, 2048}]

\* get_downloads_size_gb(), in MB
UsageValues == {0, 1024, 2048}

\* config.check_disk_space, in MB: can_download
check_disk_space(estimated_size_mb, usage_mb) ==
    IF env.max_disk_gb <= 0 THEN TRUE
    ELSE ~(usage_mb + estimated_size_mb > env.max_disk_gb * 1024)

\* task = await request_queue.get(), the unpacking, task_id, the def of
\* update_status_msg, the hand-over of a job flagged live, "Processing"
VqGet ==
    /\ w["video"].pc = "get"
    /\ queue["video"] # <<>>
    /\ \E ok \in OkChoices(1) :
         LET d == Dequeue(queue["video"])
             task == d.task
             r0 == [Step("video") EXCEPT
                        !.w.job = task.id,
                        !.hist.started["video"] = Append(@, task.id),
                        !.hist.active["video"] = @ \cup {task.id}]
             r1 == [r0 EXCEPT
                        !.w.chat_id = task.chat_id,
                        !.w.url = task.url,
                        !.w.message_id = task.message_id,
                        !.w.channel = IF task.len >= 6 THEN task.channel_name ELSE @,
                        !.w.audio_only = task.len >= 4 /\ task.audio_only,
                        !.w.task_id = VideoTaskId(task.chat_id, task.message_id, now),
                        !.w.status_msg = IF task.len >= 5 THEN task.status_msg ELSE NoMsg,
                        !.w.last_edit_time = 0,
                        !.w.defined = TRUE]
             r == IF task.len < 3 THEN LoopExcept("video", r0, ok[1])
                  ELSE IF task.len = 7 /\ task.is_live THEN SpawnLive("video", r1)
                  ELSE [Upd(r1, Text("processing"), TRUE, TRUE, ok[1]) EXCEPT !.w.pc = "info"]
         IN  /\ queue' = [queue EXCEPT !["video"] = d.rest]
             /\ Commit("video", r, ok)
    /\ UNCHANGED <<co, scan, db, env, disk, now, tg, hu>>

\* "Checking video info", the probe, the hand-over of a stream found live,
\* the disk check, the cancel check, and the start of download_content on
\* a worker thread. The hand-over is inside the try block of the probe:
\* while channel_name is unbound, building the call raises
\* UnboundLocalError, which `except Exception` of the probe logs, and the
\* job goes on to the disk check as an ordinary one.
VqInfo(probe, usage) ==
    /\ w["video"].pc = "info"
    /\ \E ok \in OkChoices(2) :
         LET r1 == Upd(Step("video"), Text("checking"), TRUE, TRUE, ok[1])
             gone == EndIteration("video",
                        [DeleteStatus(r1, ok[2]) EXCEPT !.cancelled = @ \ {r1.w.task_id}],
                        "cancelled")
             r == IF probe.is_live /\ r1.w.channel # Unbound
                  THEN SpawnLive("video", r1)
                  ELSE IF env.max_disk_gb > 0 /\ probe.filesize_mb > 0
                          /\ ~check_disk_space(probe.filesize_mb, usage)
                  THEN EndIteration("video",
                          Upd(r1, Text("lowdisk"), TRUE, FALSE, ok[2]), "lowdisk")
                  ELSE IF r1.w.task_id \in r1.cancelled
                  THEN Polled(gone, r1.w.job, "prefetch", gone.w.pc = "get")
                  ELSE [r1 EXCEPT !.w.pc = "download",
                                  !.dl = DlEnter(r1.w.task_id, r1.w.url, r1.w.audio_only, TRUE)]
             seen == [job |-> r1.w.job, is_live |-> probe.is_live,
                      over |-> /\ env.max_disk_gb > 0
                               /\ usage + probe.filesize_mb > env.max_disk_gb * 1024]
         IN  Commit("video", [r EXCEPT !.hist.space = seen], ok)
    /\ UNCHANGED <<co, scan, db, env, disk, now, tg, hu, queue>>

\* download_content returned: handle_upload(..., channel_name, ...) is
\* called; channel_name is unbound until a 6- or 7-tuple has been unpacked
VqDownloaded ==
    /\ w["video"].pc = "download"
    /\ dl["video"].pc = "returned"
    /\ \E ok \in OkChoices(1) :
         LET r0 == Step("video")
         IN  IF r0.w.channel = Unbound
             THEN /\ Commit("video", LoopExcept("video", r0, ok[1]), ok)
                  /\ UNCHANGED hu
             ELSE /\ Commit("video", [r0 EXCEPT !.w.pc = "upload", !.dl = DlIdle,
                                                !.w.file_path = dl["video"].ret.filename,
                                                !.w.thumb_path = dl["video"].ret.thumb_path], ok)
                  /\ ok[1]
                  /\ hu' = [hu EXCEPT !["video"] =
                              HuEnter(dl["video"].ret.filename, dl["video"].ret.thumb_path,
                                      r0.w.audio_only)]
    /\ UNCHANGED <<co, scan, db, env, disk, now, tg, queue>>

\* download_content raised: the sweep of f"*{task_id}*", "Download failed"
VqDownloadFailed ==
    /\ w["video"].pc = "download"
    /\ dl["video"].pc = "raised"
    /\ \E ok \in OkChoices(1) :
         Commit("video",
                EndIteration("video",
                    Upd(Step("video"), Text("dlfail"), TRUE, FALSE, ok[1]), "dlfail"),
                ok)
    /\ disk' = disk \ GlobTask(disk, w["video"].task_id)
    /\ UNCHANGED <<co, scan, db, env, now, tg, hu, queue>>

\* handle_upload returned: the status message is deleted
VqUploaded ==
    /\ w["video"].pc = "upload"
    /\ hu["video"].pc = "returned"
    /\ \E ok \in OkChoices(1) :
         Commit("video", EndIteration("video", DeleteStatus(Step("video"), ok[1]), "done"), ok)
    /\ hu' = [hu EXCEPT !["video"] = HuIdle]
    /\ UNCHANGED <<co, scan, db, env, disk, now, tg, queue>>

\* the entries of a playlist
MaxVideos == 2

\* get_playlist_info(url) under wait_for(60): a timeout, an error, or the
\* entries
PlaylistResults ==
    [kind : {"timeout", "error"}, entries : {<<>>}]
    \cup [kind : {"info"},
          entries : UNION { [1..n -> VideoIds] : n \in 0..MaxVideos }]

\* The top of the for loop for entry idx + 1 (0-based index idx), or the
\* statements after the loop: the cancel check with its break, "Processing
\* i/n" and the start of download_content, or "Playlist complete".
PqBoundary(r, ok1, ok2) ==
    LET n == Len(r.w.entries)
        complete == <<"pl_complete", n>>
        stopped == EndIteration("playlist",
                      Upd([Upd(r, Text("pl_cancelled"), TRUE, TRUE, ok1)
                             EXCEPT !.cancelled = @ \ {r.w.task_id}],
                          complete, TRUE, TRUE, ok2),
                      "cancelled")
    IN  IF r.w.idx >= n
        THEN EndIteration("playlist", Upd(r, complete, TRUE, TRUE, ok1), "done")
        ELSE IF r.w.task_id \in r.cancelled
        THEN Polled(stopped, r.w.job, "entry", stopped.w.pc = "get")
        ELSE [Upd(r, <<"pl_processing", r.w.idx + 1, n>>, TRUE, TRUE, ok1)
                EXCEPT !.w.pc = "download",
                       !.dl = DlEnter(r.w.task_id, r.w.entries[r.w.idx + 1], FALSE, TRUE)]

\* task = await playlist_queue.get(), the unpacking, task_id, the def of
\* update_status_msg, "Getting playlist info"
PqGet ==
    /\ w["playlist"].pc = "get"
    /\ queue["playlist"] # <<>>
    /\ \E ok \in OkChoices(1) :
         LET d == Dequeue(queue["playlist"])
             task == d.task
             r0 == [Step("playlist") EXCEPT
                        !.w.job = task.id,
                        !.hist.started["playlist"] = Append(@, task.id),
                        !.hist.active["playlist"] = @ \cup {task.id}]
             r1 == [r0 EXCEPT
                        !.w.chat_id = task.chat_id,
                        !.w.url = task.url,
                        !.w.message_id = task.message_id,
                        !.w.task_id = PlaylistTaskId(task.chat_id, now),
                        !.w.status_msg = IF task.len = 5 THEN task.status_msg ELSE NoMsg,
                        !.w.last_edit_time = 0,
                        !.w.entries = <<>>,
                        !.w.idx = 0,
                        !.w.defined = TRUE]
             r == IF task.len \notin {4, 5} THEN LoopExcept("playlist", r0, ok[1])
                  ELSE [Upd(r1, Text("pl_info"), TRUE, TRUE, ok[1]) EXCEPT !.w.pc = "info"]
         IN  /\ queue' = [queue EXCEPT !["playlist"] = d.rest]
             /\ Commit("playlist", r, ok)
    /\ UNCHANGED <<co, scan, db, env, disk, now, tg, hu>>

\* get_playlist_info returns or raises; "No videos found", or "Found n
\* videos" and the first pass of the loop up to its download
PqInfo(res) ==
    /\ w["playlist"].pc = "info"
    /\ \E ok \in OkChoices(3) :
         LET r0 == Step("playlist")
             r1 == [Upd(r0, <<"pl_found", Len(res.entries)>>, TRUE, TRUE, ok[1])
                      EXCEPT !.w.entries = res.entries, !.w.idx = 0]
             r == IF res.kind = "timeout"
                  THEN EndIteration("playlist",
                          Upd(r0, Text("pl_timeout"), TRUE, TRUE, ok[1]), "error")
                  ELSE IF res.kind = "error"
                  THEN EndIteration("playlist",
                          Upd(r0, Text("pl_failed"), TRUE, TRUE, ok[1]), "error")
                  ELSE IF res.entries = <<>>
                  THEN EndIteration("playlist",
                          Upd(r0, Text("pl_empty"), TRUE, TRUE, ok[1]), "empty")
                  ELSE PqBoundary(r1, ok[2], ok[3])
         IN  Commit("playlist", r, ok)
    /\ UNCHANGED <<co, scan, db, env, disk, now, tg, hu, queue>>

\* download_content returned for the entry: handle_upload is called
PqDownloaded ==
    /\ w["playlist"].pc = "download"
    /\ dl["playlist"].pc = "returned"
    /\ w' = [w EXCEPT !["playlist"].pc = "upload",
                      !["playlist"].file_path = dl["playlist"].ret.filename,
                      !["playlist"].thumb_path = dl["playlist"].ret.thumb_path]
    /\ hu' = [hu EXCEPT !["playlist"] =
                HuEnter(dl["playlist"].ret.filename, dl["playlist"].ret.thumb_path, FALSE)]
    /\ dl' = [dl EXCEPT !["playlist"] = DlIdle]
    /\ UNCHANGED <<co, scan, db, env, cancelled_tasks, disk, now, msgs, tg, queue, live, hist>>

\* download_content raised for the entry: "Skipped" goes to the chat and
\* the loop goes on; when that send raises, the handler around the
\* playlist takes it: "Failed to get playlist info".
PqDownloadFailed ==
    /\ w["playlist"].pc = "download"
    /\ dl["playlist"].pc = "raised"
    /\ \E ok \in OkChoices(3) :
         LET r0 == [Step("playlist") EXCEPT !.dl = DlIdle]
             text == <<"skipped", r0.w.idx + 1>>
             r1 == [r0 EXCEPT !.msgs = send_message(r0.msgs, r0.w.chat_id, text, r0.w.job),
                              !.hist = Reported(r0.hist, r0.w.job, text, TRUE),
                              !.w.idx = @ + 1]
             r == IF ok[1]
                  THEN PqBoundary(r1, ok[2], ok[3])
                  ELSE EndIteration("playlist",
                          Upd(r0, Text("pl_failed"), TRUE, TRUE, ok[2]), "error")
         IN  Commit("playlist", r, ok)
    /\ UNCHANGED <<co, scan, db, env, disk, now, tg, hu, queue>>

\* handle_upload returned for the entry: the next pass of the loop
PqUploaded ==
    /\ w["playlist"].pc = "upload"
    /\ hu["playlist"].pc = "returned"
    /\ \E ok \in OkChoices(2) :
         Commit("playlist",
                PqBoundary([Step("playlist") EXCEPT !.w.idx = @ + 1], ok[1], ok[2]), ok)
    /\ hu' = [hu EXCEPT !["playlist"] = HuIdle]
    /\ UNCHANGED <<co, scan, db, env, disk, now, tg, queue>>

(***************************************************************************)
(* queue_processor.process_live_stream. The function assigns glob (the    *)
(* import in its except clause), so glob is a local of the function and   *)
(* unbound until that import runs: the first glob.glob of the try block   *)
(* raises UnboundLocalError. The supervisor therefore never reaches its   *)
(* segment uploads nor its cancel poll; the model holds what can run.     *)
(* The update_status_msg it calls is the closure of the process_queue     *)
(* frame: it acts on the cells of w["video"] as they are when it runs.    *)
(***************************************************************************)
\* the segment files one capture writes
MaxSegs == 1

\* f"live_{task_id}_%03d.mp4", and glob(f"live_{task_id}_*.mp4")
SegFile(task_id, n) == [kind |-> "seg", vid |-> "-", tid |-> task_id, n |-> n]
GlobSegs(files, task_id) == { f \in files : f.kind = "seg" /\ f.tid = task_id }

\* except Exception: the sweep of the job's segments, "Live recording
\* error"; the task ends, the capture process is left as it is
LiveExcept(i, ok) ==
    LET r == UpdAs(Step("video"), live[i].job, Text("live_error"), TRUE, FALSE, ok)
    IN  /\ disk' = disk \ GlobSegs(disk, live[i].task_id)
        /\ w' = [w EXCEPT !["video"] = r.w]
        /\ msgs' = r.msgs
        /\ live' = [live EXCEPT ![i].pc = "done", ![i].ended = "error"]
        /\ hist' = Charge(
              IF live[i].pc = "loop" /\ live[i].task_id \in cancelled_tasks
              THEN Polled(r, live[i].job, "live",
                          live[i].capture # "running"
                          /\ live[i].task_id \notin cancelled_tasks).hist
              ELSE r.hist, <<ok>>)

\* "Getting live stream URL", get_stream_url(url): a URL, None ("Could not
\* extract stream URL", return) or an exception
LiveResolve(i) ==
    /\ live[i].pc = "resolve"
    /\ \E ok \in OkChoices(2), res \in {"url", "none"} :
         LET r1 == UpdAs(Step("video"), live[i].job, Text("live_url"), TRUE, FALSE, ok[1])
             r2 == UpdAs(r1, live[i].job, Text("live_nourl"), TRUE, FALSE, ok[2])
             r == IF res = "url" THEN r1 ELSE r2
         IN  /\ w' = [w EXCEPT !["video"] = r.w]
             /\ msgs' = r.msgs
             /\ hist' = Charge(r.hist, ok)
             /\ live' = [live EXCEPT ![i].pc = IF res = "url" THEN "start" ELSE "done",
                                     ![i].ended = IF res = "url" THEN "none" ELSE "nourl"]
    /\ UNCHANGED <<co, scan, db, env, cancelled_tasks, disk, now, tg, dl, hu, queue>>

\* create_subprocess_exec(ffmpeg ... segment_template), "Recording live
\* stream"
LiveStart(i) ==
    /\ live[i].pc = "start"
    /\ \E ok \in OkChoices(1) :
         LET r == UpdAs(Step("video"), live[i].job, Text("live_recording"), TRUE, FALSE, ok[1])
         IN  /\ w' = [w EXCEPT !["video"] = r.w]
             /\ msgs' = r.msgs
             /\ hist' = Charge(r.hist, ok)
             /\ live' = [live EXCEPT ![i].pc = "loop", ![i].capture = "running"]
    /\ UNCHANGED <<co, scan, db, env, cancelled_tasks, disk, now, tg, dl, hu, queue>>

\* a pass that hands the newest segment file to handle_upload
LiveLoop_UploadsNewest(i) ==
    /\ live[i].pc = "loop"
    /\ live[i].segs > 0
    /\ live' = [live EXCEPT ![i].pc = "done",
                            ![i].uploaded_segments =
                                Append(@, SegFile(live[i].task_id, live[i].segs))]
    /\ UNCHANGED <<co, scan, db, env, cancelled_tasks, disk, now, msgs, tg, dl, hu, w, queue, hist>>

\* the first pass of while True: process.returncode is None and glob.glob
\* raises, or the process has exited, the loop breaks and the glob.glob of
\* the final upload raises
LiveLoop(i) ==
    /\ live[i].pc = "loop"
    /\ \E ok \in OkChoices(1) : LiveExcept(i, ok[1])
    /\ UNCHANGED <<co, scan, db, env, cancelled_tasks, now, tg, dl, hu, queue>>

\* the ffmpeg process of live job i closes a segment file
CaptureWrites(i) ==
    /\ live[i].capture = "running"
    /\ live[i].segs < MaxSegs
    /\ disk' = disk \cup {SegFile(live[i].task_id, live[i].segs + 1)}
    /\ live' = [live EXCEPT ![i].segs = @ + 1]
    /\ UNCHANGED <<co, scan, db, env, cancelled_tasks, now, msgs, tg, dl, hu, w, queue, hist>>

\* the stream ends and the ffmpeg process exits
CaptureExits(i) ==
    /\ live[i].capture = "running"
    /\ live' = [live EXCEPT ![i].capture = "exited"]
    /\ UNCHANGED <<co, scan, db, env, cancelled_tasks, disk, now, msgs, tg, dl, hu, w, queue, hist>>

(***************************************************************************)
(* Specifications.                                                         *)
(***************************************************************************)
vars == <<env, cancelled_tasks, disk, now, msgs, tg, dl, hu, w, queue, live, hist, db, scan, co>>

\* The environments of the model: every PROXY and PROXY_LIST setting, and
\* one setting for each route list these produce.
ProxyEnvs == [proxy : ProxyValues, proxy_list : ProxyListValues]
RouteLists == { get_proxy_list(e) : e \in ProxyEnvs }
RouteEnvs == { CHOOSE e \in ProxyEnvs : get_proxy_list(e) = l : l \in RouteLists }
Env(pe, api_url, ffmpeg, max_disk_gb) ==
    [proxy |-> pe.proxy, proxy_list |-> pe.proxy_list, api_url |-> api_url,
     ffmpeg |-> ffmpeg, max_disk_gb |-> max_disk_gb, allowed_chat_ids |-> <<>>]
NoProxyEnv == [proxy |-> <<>>, proxy_list |-> <<>>]

\* the steps of a behaviour in which a transport call raises
MaxFaults == 1
MaxUploadFaults == 3

\* Nothing running: the state every specification starts from, apart from
\* the parts it sets up.
Quiet ==
    /\ cancelled_tasks = {}
    /\ db = NoDb
    /\ scan = NoScan
    /\ co = <<>>
    /\ now = T0
    /\ tg = TgStart
    /\ dl = [c \in Callers |-> DlIdle]
    /\ live = <<>>
    /\ queue = [c \in Callers |-> <<>>]

\* tg_retry alone: one call, the wrapped function free to return or raise.
InitRetry ==
    /\ Quiet
    /\ env = Env(NoProxyEnv, "official", TRUE, 0)
    /\ disk = {} /\ msgs = <<>>
    /\ hu = [c \in Callers |-> HuIdle]
    /\ w = [c \in Callers |-> WorkerStart]
    /\ hist = NoHistory(0, 1)
NextRetry ==
    \/ (TgCallReturns /\ UNCHANGED <<co, scan, db, env, cancelled_tasks, disk, now, msgs, dl, hu, w, queue, live, hist>>)
    \/ (TgCallRaises /\ UNCHANGED <<co, scan, db, env, cancelled_tasks, disk, now, msgs, dl, hu, w, queue, live, hist>>)
    \/ (TgWake /\ UNCHANGED <<co, scan, db, env, cancelled_tasks, disk, now, msgs, dl, hu, w, queue, live, hist>>)
SpecRetry == InitRetry /\ [][NextRetry]_vars

\* download_content alone: one call for one job, under any route list,
\* with the job's cancel button pressed at any time.
DlJob == VideoTaskId(UserChat, 1, T0)
InitDownload ==
    /\ Quiet
    /\ env \in { Env(pe, "official", TRUE, 0) : pe \in RouteEnvs }
    /\ disk = {}
    /\ msgs = <<ChatMessage(UserChat, Text("processing"), DlJob, 1)>>
    /\ hu = [c \in Callers |-> HuIdle]
    /\ w = [c \in Callers |-> WorkerStart]
    /\ hist = NoHistory(MaxFaults, 1)
DlCall ==
    /\ dl["video"].pc = "idle"
    /\ \E vid \in VideoIds, audio_only \in BOOLEAN :
         dl' = [dl EXCEPT !["video"] = DlEnter(DlJob, vid, audio_only, FALSE)]
    /\ UNCHANGED <<co, scan, db, env, cancelled_tasks, disk, now, msgs, tg, hu, w, queue, live, hist>>
DlCancel ==
    /\ DlJob \notin cancelled_tasks
    /\ cancel_callback(1)
    /\ UNCHANGED <<co, scan, db, env, disk, now, tg, dl, hu, w, queue, live>>
NextDownload ==
    \/ DlCall
    \/ DlCancel
    \/ (ExtractorWrites("video") /\ UNCHANGED <<co, scan, db, env, cancelled_tasks, now, msgs, tg, hu, w, queue, live, hist>>)
    \/ (DlTick("video") /\ UNCHANGED <<co, scan, db, env, cancelled_tasks, disk, now, tg, hu, queue, live>>)
    \/ (\E e \in ExtractorErrors : ExtractorFails("video", e) /\ UNCHANGED <<co, scan, db, env, cancelled_tasks, disk, now, msgs, tg, hu, w, queue, live, hist>>)
    \/ (ExtractorSucceeds("video") /\ UNCHANGED <<co, scan, db, env, cancelled_tasks, now, msgs, tg, hu, w, queue, live, hist>>)
SpecDownload == InitDownload /\ [][NextDownload]_vars

\* handle_upload alone: one call for a file download_content returned
\* (the file is on disk; thumb_path is the thumbnail when it is on disk),
\* for an audio or a video job, on either API, with or without ffmpeg, the
\* caller's status message existing or not.
UploadFile(audio_only) == OutFile(IF audio_only THEN "m4a" ELSE "mp4", "v1")
UploadCells(has_status) ==
    [WorkerStart EXCEPT !.pc = "upload", !.defined = TRUE, !.job = 1, !.chat_id = 1,
                        !.url = "v1", !.message_id = 1, !.task_id = DlJob,
                        !.status_msg = IF has_status
                                       THEN [id |-> 1, text |-> Text("processing")]
                                       ELSE NoMsg]
InitUpload ==
    /\ Quiet
    /\ \E api_url \in ApiUrls, ffmpeg \in BOOLEAN :
         env = Env(NoProxyEnv, api_url, ffmpeg, 0)
    /\ \E audio_only \in BOOLEAN, has_thumb \in BOOLEAN, has_status \in BOOLEAN :
         /\ disk = {UploadFile(audio_only)}
                   \cup (IF has_thumb THEN {OutFile("thumb", "v1")} ELSE {})
         /\ hu = [c \in Callers |->
                    IF c = "video"
                    THEN HuEnter(UploadFile(audio_only),
                                 IF has_thumb THEN OutFile("thumb", "v1") ELSE NoFile,
                                 audio_only)
                    ELSE HuIdle]
         /\ w = [c \in Callers |-> IF c = "video" THEN UploadCells(has_status)
                                   ELSE WorkerStart]
         /\ msgs = IF has_status
                   THEN <<ChatMessage(1, Text("checking"), DlJob, 1)>>
                   ELSE <<>>
    /\ hist = NoHistory(MaxUploadFaults, 1)
NextUpload ==
    \/ (HuSendAudio("video") /\ UNCHANGED <<co, scan, db, env, cancelled_tasks, now, tg, dl, queue, live>>)
    \/ (\E size \in FileSizes, duration \in Durations, ok_parts \in SUBSET (1..MaxParts) :
          HuSplit("video", size, duration, ok_parts)
          /\ UNCHANGED <<co, scan, db, env, cancelled_tasks, now, tg, dl, queue, live>>)
    \/ (HuSendPart("video") /\ UNCHANGED <<co, scan, db, env, cancelled_tasks, now, tg, dl, queue, live>>)
    \/ (HuReportPart("video") /\ UNCHANGED <<co, scan, db, env, cancelled_tasks, now, tg, dl, queue, live>>)
    \/ (HuCleanup("video") /\ UNCHANGED <<co, scan, db, env, cancelled_tasks, now, tg, dl, queue, live>>)
    \/ (HuExcept("video") /\ UNCHANGED <<co, scan, db, env, cancelled_tasks, now, tg, dl, queue, live>>)
SpecUpload == InitUpload /\ [][NextUpload]_vars

\* handle_upload alone, its endpoint answering the requests of a transfer
\* with flood control up to MaxFloods times before it accepts the file
MaxFloods == 2
InitFlood == InitUpload
NextFlood ==
    \/ (\E floods \in 0..MaxFloods : HuSendAudioFlooded("video", floods)
          /\ UNCHANGED <<co, scan, db, env, cancelled_tasks, now, tg, dl, queue, live>>)
    \/ (\E size \in FileSizes, duration \in Durations, ok_parts \in SUBSET (1..MaxParts) :
          HuSplit("video", size, duration, ok_parts)
          /\ UNCHANGED <<co, scan, db, env, cancelled_tasks, now, tg, dl, queue, live>>)
    \/ (\E floods \in 0..MaxFloods : HuSendPartFlooded("video", floods)
          /\ UNCHANGED <<co, scan, db, env, cancelled_tasks, now, tg, dl, queue, live>>)
    \/ (HuReportPart("video") /\ UNCHANGED <<co, scan, db, env, cancelled_tasks, now, tg, dl, queue, live>>)
    \/ (HuCleanup("video") /\ UNCHANGED <<co, scan, db, env, cancelled_tasks, now, tg, dl, queue, live>>)
    \/ (HuExcept("video") /\ UNCHANGED <<co, scan, db, env, cancelled_tasks, now, tg, dl, queue, live>>)
SpecFlood == InitFlood /\ [][NextFlood]_vars

\* update_status_msg alone: the closure of one job, its status message
\* passed with the task (a subscription job) or not yet sent, called with
\* any text and force at any time of the clock, the transport call free to
\* raise.
MaxCalls == 3
StatusTexts == {Text("found"), Text("progress"), Text("checking")}
InitStatus ==
    /\ Quiet
    /\ env = Env(NoProxyEnv, "official", TRUE, 0)
    /\ disk = {}
    /\ hu = [c \in Callers |-> HuIdle]
    /\ \E has_status \in BOOLEAN :
         /\ w = [c \in Callers |->
                    IF c = "video"
                    THEN [WorkerStart EXCEPT
                            !.pc = "download", !.defined = TRUE, !.job = 1,
                            !.chat_id = SubscriberChat, !.url = "v1", !.task_id = DlJob,
                            !.status_msg = IF has_status
                                           THEN [id |-> 1, text |-> Text("found")]
                                           ELSE NoMsg]
                    ELSE WorkerStart]
         /\ msgs = IF has_status
                   THEN <<ChatMessage(SubscriberChat, Text("found"), NoTask, 1)>>
                   ELSE <<>>
    /\ hist = NoHistory(MaxFaults, 1)

\* await update_status_msg(text, force=force)
StatusCall(text, force) ==
    /\ Len(hist.calls) < MaxCalls
    /\ \E ok \in OkChoices(1) :
         LET c == w["video"]
             u == update_status_msg(c, msgs, now, text, force, FALSE, ok[1])
             call == [text |-> text, force |-> force, t |-> now, ok |-> ok[1],
                      last |-> c.last_edit_time, shown |-> c.status_msg.text,
                      out |-> u.out]
         IN  /\ w' = [w EXCEPT !["video"] = u.cells]
             /\ msgs' = u.msgs
             /\ hist' = Charge([hist EXCEPT !.calls = Append(@, call)], ok)
    /\ UNCHANGED <<co, scan, db, env, cancelled_tasks, disk, now, tg, dl, hu, queue, live>>
NextStatus ==
    \/ \E text \in StatusTexts, force \in BOOLEAN : StatusCall(text, force)
    \/ Tick
SpecStatus == InitStatus /\ [][NextStatus]_vars

\* The progress reports of one download. progress_cb runs on the worker
\* thread and hands update_status_msg(progress, show_cancel=True) to the
\* event loop with run_coroutine_threadsafe; the loop runs the coroutine up
\* to await tg_retry(...), where it waits for the transport while other
\* coroutines run, and last_edit_time is assigned after that await.
MaxPending == 2
ProgressTexts == {<<"progress", 10>>, <<"progress", 50>>}

\* update_status_msg(text, show_cancel=True) up to its await: the window
\* and the text are tested, now and the message to edit are taken
ProgressCall(text) ==
    /\ Len(hist.calls) + Len(co) < MaxCalls
    /\ Len(co) < MaxPending
    /\ LET c == w["video"]
           waits == /\ ~(now - c.last_edit_time < StatusInterval)
                    /\ (c.status_msg = NoMsg \/ c.status_msg.text # text)
       IN  IF waits
           THEN /\ co' = Append(co, [text |-> text, t |-> now, status_msg |-> c.status_msg,
                                     last |-> c.last_edit_time])
                /\ hist' = hist
           ELSE /\ co' = co
                /\ hist' = [hist EXCEPT !.calls =
                              Append(@, [text |-> text, force |-> FALSE, t |-> now,
                                         ok |-> TRUE, last |-> c.last_edit_time,
                                         shown |-> c.status_msg.text, out |-> FALSE])]
    /\ UNCHANGED <<scan, db, env, cancelled_tasks, disk, now, msgs, tg, dl, hu, w, queue, live>>

\* the transport call of waiting coroutine k returns or raises: the edit
\* (or the new message) is in the chat, last_edit_time = now with the now
\* taken before the await, and a message sent becomes status_msg
ProgressDone(k) ==
    /\ k \in 1..Len(co)
    /\ \E ok \in OkChoices(1) :
         LET p == co[k]
             c == w["video"]
             u == update_status_msg([c EXCEPT !.status_msg = p.status_msg],
                                    msgs, p.t, p.text, TRUE, TRUE, ok[1])
             call == [text |-> p.text, force |-> FALSE, t |-> p.t, ok |-> ok[1],
                      last |-> p.last, shown |-> p.status_msg.text, out |-> u.out]
         IN  /\ w' = [w EXCEPT !["video"] =
                        IF p.status_msg = NoMsg THEN u.cells
                        ELSE [c EXCEPT !.last_edit_time = u.cells.last_edit_time]]
             /\ msgs' = u.msgs
             /\ co' = [j \in 1..(Len(co) - 1) |-> IF j < k THEN co[j] ELSE co[j + 1]]
             /\ hist' = Charge([hist EXCEPT !.calls = Append(@, call)], ok)
    /\ UNCHANGED <<scan, db, env, cancelled_tasks, disk, now, tg, dl, hu, queue, live>>

InitProgress == InitStatus
NextProgress ==
    \/ \E text \in ProgressTexts : ProgressCall(text)
    \/ \E k \in 1..MaxPending : ProgressDone(k)
    \/ Tick
SpecProgress == InitProgress /\ [][NextProgress]_vars

\* get_proxy_list alone, as download_content calls it: under every PROXY
\* and PROXY_LIST setting of the model, and a PROXY written with a blank.
InitProxyList ==
    /\ Quiet
    /\ env \in { Env(pe, "official", TRUE, 0) :
                    pe \in [proxy : ProxyValues \cup {<<" ", "a">>},
                            proxy_list : ProxyListValues] }
    /\ disk = {} /\ msgs = <<>>
    /\ hu = [c \in Callers |-> HuIdle]
    /\ w = [c \in Callers |-> WorkerStart]
    /\ hist = NoHistory(0, 1)
SpecProxyList == InitProxyList /\ [][DlCall]_vars

\* is_user_allowed alone, as the command handlers call it first: under
\* every ALLOWED_CHAT_IDS value of the model, for every chat.
InitAllowed ==
    /\ Quiet
    /\ env \in { [Env(NoProxyEnv, "official", TRUE, 0) EXCEPT !.allowed_chat_ids = a] :
                    a \in AllowedValues }
    /\ disk = {} /\ msgs = <<>>
    /\ hu = [c \in Callers |-> HuIdle]
    /\ w = [c \in Callers |-> WorkerStart]
    /\ hist = NoHistory(0, 1)
AllowedCheck(chat_id) ==
    /\ hist.checks = <<>>
    /\ hist' = [hist EXCEPT !.checks =
                  Append(@, [chat_id |-> chat_id,
                             allowed |-> is_user_allowed(env.allowed_chat_ids, chat_id)])]
    /\ UNCHANGED <<co, scan, db, env, cancelled_tasks, disk, now, msgs, tg, dl, hu, w, queue, live>>
NextAllowed == \E chat_id \in ChatIds : AllowedCheck(chat_id)
SpecAllowed == InitAllowed /\ [][NextAllowed]_vars

\* The subscription commands alone: every sequence of MaxDbOps /subscribe
\* and /unsubscribe commands of two chats on two channels.
InitDatabase ==
    /\ Quiet
    /\ env = Env(NoProxyEnv, "official", TRUE, 0)
    /\ disk = {} /\ msgs = <<>>
    /\ hu = [c \in Callers |-> HuIdle]
    /\ w = [c \in Callers |-> WorkerStart]
    /\ hist = NoHistory(0, 1)
NextDatabase ==
    \/ \E chat_id \in DbChats, channel_id \in Channels,
          channel_name \in ChannelNames, max_quality \in Qualities :
          handle_subscribe(chat_id, channel_id, channel_name, max_quality)
    \/ \E chat_id \in DbChats, channel_id \in Channels :
          handle_unsubscribe(chat_id, channel_id)
SpecDatabase == InitDatabase /\ [][NextDatabase]_vars

\* The subscriptions of two chats to one channel, the manual checks made
\* for them and the monitor; the workers are not running, so the single-
\* video queue keeps every job that was put.
MaxScanJobs == 3
InitScan ==
    /\ Quiet
    /\ env = Env(NoProxyEnv, "official", TRUE, 0)
    /\ disk = {} /\ msgs = <<>>
    /\ hu = [c \in Callers |-> HuIdle]
    /\ w = [c \in Callers |-> WorkerStart]
    /\ hist = NoHistory(0, MaxScanJobs)
NextScan ==
    \/ \E chat_id \in DbChats : handle_subscribe(chat_id, "UC1", "n1", 1080)
    \/ \E chat_id \in DbChats : handle_unsubscribe(chat_id, "UC1")
    \/ \E chat_id \in DbChats : check_channel_now("UC1", chat_id)
    \/ \E k \in 1..MaxChecks, videos \in LatestValues : NowFetched(k, videos)
    \/ \E k \in 1..MaxChecks, ok \in BOOLEAN : NowSent(k, ok)
    \/ monitor_loop
    \/ DaysPass
SpecScan == InitScan /\ [][NextScan]_vars

\* split_video alone: one call on a file that is on disk, of any size of
\* the model, on any API, with any report of ffmpeg.
InitSplit ==
    /\ Quiet
    /\ env \in { Env(NoProxyEnv, api_url, TRUE, 0) : api_url \in ApiUrls }
    /\ disk = {UploadFile(FALSE)}
    /\ msgs = <<>>
    /\ hu = [c \in Callers |-> HuIdle]
    /\ w = [c \in Callers |-> WorkerStart]
    /\ hist = NoHistory(0, 1)
SplitCall(size, duration, ok_parts) ==
    /\ ~hu["video"].split.called
    /\ LET file_path == UploadFile(FALSE)
           r == split_video(file_path, file_path \in disk, size, env.api_url,
                            duration, ok_parts)
           made == { r.parts[k] : k \in 1..Len(r.parts) } \ {file_path}
       IN  /\ hu' = [hu EXCEPT !["video"].split =
                        [called |-> TRUE, file_path |-> file_path, size |-> size,
                         limit |-> ActiveLimit(env.api_url), duration |-> duration,
                         ok_parts |-> ok_parts, result |-> r],
                                !["video"].made = made]
           /\ disk' = disk \cup made
    /\ UNCHANGED <<co, scan, db, env, cancelled_tasks, now, msgs, tg, dl, w, queue, live, hist>>
NextSplit ==
    \E size \in FileSizes, duration \in Durations, ok_parts \in SUBSET (1..MaxParts) :
        SplitCall(size, duration, ok_parts)
SpecSplit == InitSplit /\ [][NextSplit]_vars

\* The frames of the download and upload actions.
ExtractorRaises(c, e) ==
    ExtractorFails(c, e) /\ UNCHANGED <<co, scan, db, env, cancelled_tasks, disk, now, msgs, tg, hu, w, queue, live, hist>>
Split(c, size, duration, ok_parts) ==
    HuSplit(c, size, duration, ok_parts)
    /\ UNCHANGED <<co, scan, db, env, cancelled_tasks, now, tg, dl, queue, live>>

\* The single-video worker with the live supervisors it starts, fed by the
\* commands and by the subscription scan, under every outcome of the probe,
\* the extractor, the splitter and (once in a behaviour) a failing
\* transport call. With one job the audio branch of handle_upload is out of
\* reach: an audio job is a command, and channel_name is unbound for it.
MainEnvs ==
    { Env(NoProxyEnv, "official", TRUE, 0),
      Env([proxy |-> <<"a">>, proxy_list |-> <<>>], "local", TRUE, 1) }
Idle ==
    /\ Quiet
    /\ disk = {} /\ msgs = <<>>
    /\ hu = [c \in Callers |-> HuIdle]
    /\ w = [c \in Callers |-> WorkerStart]
InitVideo ==
    /\ Idle
    /\ env \in MainEnvs
    /\ hist = NoHistory(MaxFaults, MaxVideoJobs)
NextVideo ==
    \/ \E url \in VideoIds, len \in {3, 4}, audio_only \in BOOLEAN : PutCommand(url, len, audio_only)
    \/ \E url \in VideoIds, is_live \in BOOLEAN : PutSubscription(url, is_live)
    \/ Tick
    \/ CancelPress
    \/ VqGet
    \/ \E probe \in ProbeResults, usage \in UsageValues : VqInfo(probe, usage)
    \/ VqDownloaded
    \/ VqDownloadFailed
    \/ VqUploaded
    \/ ExtractorWrites("video") /\ UNCHANGED <<co, scan, db, env, cancelled_tasks, now, msgs, tg, hu, w, queue, live, hist>>
    \/ DlTick("video") /\ UNCHANGED <<co, scan, db, env, cancelled_tasks, disk, now, tg, hu, queue, live>>
    \/ ExtractorSucceeds("video") /\ UNCHANGED <<co, scan, db, env, cancelled_tasks, now, msgs, tg, hu, w, queue, live, hist>>
    \/ \E e \in ExtractorErrors : ExtractorRaises("video", e)
    \/ \E size \in FileSizes, duration \in Durations, ok_parts \in SUBSET (1..MaxParts) :
         Split("video", size, duration, ok_parts)
    \/ HuSendPart("video") /\ UNCHANGED <<co, scan, db, env, cancelled_tasks, now, tg, dl, queue, live>>
    \/ HuReportPart("video") /\ UNCHANGED <<co, scan, db, env, cancelled_tasks, now, tg, dl, queue, live>>
    \/ HuCleanup("video") /\ UNCHANGED <<co, scan, db, env, cancelled_tasks, now, tg, dl, queue, live>>
    \/ HuExcept("video") /\ UNCHANGED <<co, scan, db, env, cancelled_tasks, now, tg, dl, queue, live>>
    \/ \E i \in 1..Len(live) : LiveResolve(i)
    \/ \E i \in 1..Len(live) : LiveStart(i)
    \/ \E i \in 1..Len(live) : LiveLoop(i)
    \/ \E i \in 1..Len(live) : CaptureWrites(i)
    \/ \E i \in 1..Len(live) : CaptureExits(i)
SpecVideo == InitVideo /\ [][NextVideo]_vars

\* The program: both worker loops side by side, fed by a quality command,
\* by the subscription scan and by the playlist command, with the Cancel
\* buttons; the probe fails or finds a video, a playlist has at most one
\* entry, the extractor succeeds or raises a resolver error, the files are
\* under the ceiling.
Init ==
    /\ Idle
    /\ env = Env(NoProxyEnv, "official", TRUE, 0)
    /\ hist = NoHistory(0, MaxJobs)
Next ==
    \/ PutCommand("v1", 4, FALSE)
    \/ PutSubscription("v2", FALSE)
    \/ PutPlaylist
    \/ CancelPress
    \/ VqGet
    \/ \E probe \in { q \in ProbeResults : ~q.is_live } : VqInfo(probe, 0)
    \/ VqDownloaded
    \/ VqDownloadFailed
    \/ VqUploaded
    \/ PqGet
    \/ \E res \in { q \in PlaylistResults : q.kind # "timeout" /\ Len(q.entries) <= 1 } :
         PqInfo(res)
    \/ PqDownloaded
    \/ PqDownloadFailed
    \/ PqUploaded
    \/ \E c \in Callers : ExtractorWrites(c) /\ UNCHANGED <<co, scan, db, env, cancelled_tasks, now, msgs, tg, hu, w, queue, live, hist>>
    \/ \E c \in Callers : DlTick(c) /\ UNCHANGED <<co, scan, db, env, cancelled_tasks, disk, now, tg, hu, queue, live>>
    \/ \E c \in Callers : ExtractorSucceeds(c) /\ UNCHANGED <<co, scan, db, env, cancelled_tasks, now, msgs, tg, hu, w, queue, live, hist>>
    \/ \E c \in Callers : ExtractorRaises(c, "dns")
    \/ \E c \in Callers : Split(c, 10 * MB, "none", {})
    \/ \E c \in Callers : HuSendPart(c) /\ UNCHANGED <<co, scan, db, env, cancelled_tasks, now, tg, dl, queue, live>>
    \/ \E c \in Callers : HuCleanup(c) /\ UNCHANGED <<co, scan, db, env, cancelled_tasks, now, tg, dl, queue, live>>
Spec == Init /\ [][Next]_vars

\* The program fed with any tuple: the producers above and one that puts
\* a tuple of two fields on either queue.
NextTuples ==
    \/ Next
    \/ \E c \in Callers : PutMalformed(c)
SpecTuples == Init /\ [][NextTuples]_vars

\* Two jobs of the subscription producers (6-tuples: message_id is None)
\* for one chat on the single-video worker, the probe finding a live stream
\* or a video, with the live supervisors, the Cancel buttons and the clock.
MaxOverlapJobs == 2
InitOverlap ==
    /\ Idle
    /\ env = Env(NoProxyEnv, "official", TRUE, 0)
    /\ hist = NoHistory(0, MaxOverlapJobs)
NextOverlap ==
    \/ \E url \in VideoIds : PutSubscription(url, FALSE)
    \/ Tick
    \/ CancelPress
    \/ VqGet
    \/ \E probe \in { q \in ProbeResults : q.kind = "info" /\ q.filesize_mb = 0 } : VqInfo(probe, 0)
    \/ VqDownloaded
    \/ VqDownloadFailed
    \/ VqUploaded
    \/ ExtractorWrites("video") /\ UNCHANGED <<co, scan, db, env, cancelled_tasks, now, msgs, tg, hu, w, queue, live, hist>>
    \/ DlTick("video") /\ UNCHANGED <<co, scan, db, env, cancelled_tasks, disk, now, tg, hu, queue, live>>
    \/ ExtractorSucceeds("video") /\ UNCHANGED <<co, scan, db, env, cancelled_tasks, now, msgs, tg, hu, w, queue, live, hist>>
    \/ Split("video", 10 * MB, "none", {})
    \/ HuSendPart("video") /\ UNCHANGED <<co, scan, db, env, cancelled_tasks, now, tg, dl, queue, live>>
    \/ HuCleanup("video") /\ UNCHANGED <<co, scan, db, env, cancelled_tasks, now, tg, dl, queue, live>>
    \/ \E i \in 1..Len(live) : LiveResolve(i)
    \/ \E i \in 1..Len(live) : LiveStart(i)
    \/ \E i \in 1..Len(live) : LiveLoop(i)
    \/ \E i \in 1..Len(live) : CaptureWrites(i)
    \/ \E i \in 1..Len(live) : CaptureExits(i)
SpecOverlap == InitOverlap /\ [][NextOverlap]_vars

\* The playlist worker alone: one /playlist command, a playlist of up to
\* MaxVideos entries, the Cancel Playlist button, every outcome of the
\* extractor and of the splitter, and (once in a behaviour) a failing
\* transport call.
InitPlaylist ==
    /\ Idle
    /\ env = Env(NoProxyEnv, "official", TRUE, 0)
    /\ hist = NoHistory(MaxFaults, 1)
NextPlaylist ==
    \/ PutPlaylist
    \/ CancelPress
    \/ PqGet
    \/ \E res \in PlaylistResults : PqInfo(res)
    \/ PqDownloaded
    \/ PqDownloadFailed
    \/ PqUploaded
    \/ ExtractorWrites("playlist") /\ UNCHANGED <<co, scan, db, env, cancelled_tasks, now, msgs, tg, hu, w, queue, live, hist>>
    \/ DlTick("playlist") /\ UNCHANGED <<co, scan, db, env, cancelled_tasks, disk, now, tg, hu, queue, live>>
    \/ ExtractorSucceeds("playlist") /\ UNCHANGED <<co, scan, db, env, cancelled_tasks, now, msgs, tg, hu, w, queue, live, hist>>
    \/ ExtractorRaises("playlist", "dns")
    \/ \E size \in {10 * MB, STANDARD_API_LIMIT + 1}, duration \in Durations,
          ok_parts \in {{}, {1}, {1, 2}} :
         Split("playlist", size, duration, ok_parts)
    \/ HuSendPart("playlist") /\ UNCHANGED <<co, scan, db, env, cancelled_tasks, now, tg, dl, queue, live>>
    \/ HuReportPart("playlist") /\ UNCHANGED <<co, scan, db, env, cancelled_tasks, now, tg, dl, queue, live>>
    \/ HuCleanup("playlist") /\ UNCHANGED <<co, scan, db, env, cancelled_tasks, now, tg, dl, queue, live>>
    \/ HuExcept("playlist") /\ UNCHANGED <<co, scan, db, env, cancelled_tasks, now, tg, dl, queue, live>>
SpecPlaylist == InitPlaylist /\ [][NextPlaylist]_vars

IsPrefix(s, t) == Len(s) <= Len(t) /\ SubSeq(t, 1, Len(s)) = s
WorkerFrame(c) == <<w[c].pc, w[c].job, dl[c], hu[c]>>

\* C2: each worker starts the jobs of its queue in the order they were
\* put; at most one job of a queue is between its dequeue and the end of
\* its loop iteration, and a download or an upload of a worker belongs to
\* that job; no step moves both workers (a step of one loop neither waits
\* for nor advances the other).
C2_FifoOneAtATime ==
    /\ [](\A c \in Callers :
            /\ IsPrefix(hist.started[c], hist.put[c])
            /\ Cardinality(hist.active[c]) <= 1
            /\ (dl[c].pc # "idle" \/ hu[c].pc # "idle") => hist.active[c] = {w[c].job})
    /\ [][~(WorkerFrame("video")' # WorkerFrame("video")
            /\ WorkerFrame("playlist")' # WorkerFrame("playlist"))]_vars

\* two jobs were put on one queue, the first has ended and the second,
\* started after it, is being delivered
C2_Witness ==
    \E c \in Callers :
        /\ Len(hist.put[c]) = 2
        /\ hist.started[c] = hist.put[c]
        /\ hist.active[c] = {hist.put[c][2]}
        /\ hu[c].pc = "part"

\* C3: a job that reaches a poll point (the pre-fetch check, a progress
\* tick, a playlist entry boundary, the poll of a live capture) with its
\* id in cancelled_tasks aborts there.
C3_CancelObserved == \A p \in hist.polled : p.aborted

\* C4: when handle_upload has returned, the fetched file, the parts made
\* from it and the thumbnail are not on disk.
C4_NoArtifactsLeft ==
    hu["video"].pc = "returned" =>
        /\ hu["video"].file_path \notin disk
        /\ hu["video"].made \cap disk = {}
        /\ hu["video"].thumb_path \notin disk

\* C5: when download_content raised a non-restriction error, the job has
\* ended with exactly one failure report and none of the files that
\* download wrote is on disk.
C5_FailureReportedAndSwept ==
    LET e == hist.ended["video"]
    IN  (e.how = "dlfail" /\ e.exc.kind = "same" /\ ~GeoRestricted[e.exc.err]) =>
            /\ hist.reports[e.job] = 1
            /\ e.written \cap disk = {}

C19_MarksRemoved ==
    [][ /\ (/\ hist.active["video"] # {}
            /\ hist.active'["video"] = {}
            /\ hist.ended'["video"].how # "live")
           => w'["video"].task_id \notin cancelled_tasks'
        /\ \A i \in 1..Len(live) :
             (live[i].pc # "done" /\ live'[i].pc = "done")
                => live[i].task_id \notin cancelled_tasks' ]_vars

\* C20: two jobs whose executions overlap in time (the job the single-
\* video worker is processing and a live capture whose supervisor has not
\* ended, or two such live captures) have distinct job identifiers, so that
\* an identifier in cancelled_tasks names one of them only.
C20_OverlappingJobsDistinctIds ==
    /\ \A i \in 1..Len(live) :
         (live[i].pc # "done" /\ hist.active["video"] # {})
            => live[i].task_id # w["video"].task_id
    /\ \A i, j \in 1..Len(live) :
         (i # j /\ live[i].pc # "done" /\ live[j].pc # "done")
            => live[i].task_id # live[j].task_id

\* the messages a step sent or changed
Touched ==
    { k \in 1..Len(msgs') : k > Len(msgs) \/ msgs'[k] # msgs[k] }

\* C21: a status update issued by a live-capture task (a step of its
\* supervisor) is applied to the status message and chat of the live job
\* that spawned it, also after the single-video worker has dequeued later
\* jobs: the messages the step sends or changes are messages of that job.
C21_LiveUpdatesOwnMessage ==
    [][ \A i \in 1..Len(live) :
          (live'[i].pc # live[i].pc) =>
              \A k \in Touched :
                  /\ msgs'[k].job = live[i].job
                  /\ msgs'[k].chat = live[i].task_id.chat ]_vars

\* C22: whenever process_live_stream has returned after having started the
\* capture subprocess, that subprocess is no longer running.
C22_NoCaptureOutlivesSupervisor ==
    \A i \in 1..Len(live) :
        live[i].pc = "done" => live[i].capture # "running"

\* every file handle_upload was to transfer has been transferred
Delivered(h) ==
    IF h.audio_only THEN h.sent = <<h.file_path>>
    ELSE h.files_to_upload # <<>> /\ h.sent = h.files_to_upload

\* C23: in process_queue the status message of a job is deleted only when
\* the job completed successfully (the pre-fetch cancellation aside): a
\* step of the worker past the pre-fetch check that deletes a message ends
\* a job whose fetch returned and whose transfers all succeeded; after a
\* failure the message stays.
C23_DeletedOnlyOnSuccess ==
    [][ \A k \in 1..Len(msgs) :
          (~msgs[k].deleted /\ msgs'[k].deleted /\ w["video"].pc # "info")
             => /\ w["video"].pc = "upload"
                /\ hu["video"].pc = "returned"
                /\ Delivered(hu["video"]) ]_vars

\* C26: when the job identifier is in cancelled_tasks at the pre-fetch
\* check of process_queue, the job ends there: download_content is not
\* invoked, the status message (if there is one) is deleted when no
\* transport call of the step raised, the identifier leaves cancelled_tasks
\* and no failure report is sent.
C26_PrefetchCancel ==
    [][ (\E p \in hist.polled' \ hist.polled : p.point = "prefetch") =>
          /\ w'["video"].pc = "get"
          /\ dl'["video"] = DlIdle
          /\ hist.ended'["video"] = [NoEnd EXCEPT !.job = w["video"].job, !.how = "cancelled"]
          /\ w["video"].task_id \notin cancelled_tasks'
          /\ hist.reports' = hist.reports
          /\ (w'["video"].status_msg # NoMsg /\ hist.faults' = hist.faults)
                => msgs'[w'["video"].status_msg.id].deleted ]_vars

\* a job ended at the pre-fetch check: its status message is deleted and
\* its identifier is no longer marked
C26_Witness ==
    /\ hist.ended["video"].how = "cancelled"
    /\ \E p \in hist.polled : p.point = "prefetch" /\ p.aborted
    /\ w["video"].status_msg # NoMsg
    /\ msgs[w["video"].status_msg.id].deleted
    /\ w["video"].task_id \notin cancelled_tasks
    /\ hist.reports[hist.ended["video"].job] = 0

\* C27: without a quota the disk check of process_queue ends no job; with a
\* quota, a job (not handed over as live) whose estimate added to the usage
\* exceeds the quota ends there with the low-disk-space report and
\* download_content is not invoked for it.
C27_OverQuotaAborts ==
    [][ (w["video"].pc = "info" /\ w'["video"].pc # "info") =>
          /\ env.max_disk_gb <= 0 => hist.ended'["video"].how # "lowdisk"
          /\ (hist.space'.over /\ Len(live') = Len(live)) =>
                /\ hist.ended'["video"] =
                     [NoEnd EXCEPT !.job = w["video"].job, !.how = "lowdisk"]
                /\ dl'["video"] = DlIdle ]_vars

\* C28: a dequeued job that carries the live flag, or whose probe reports a
\* live stream, is handed to a new process_live_stream task in that step;
\* process_queue starts no fetch and no delivery for it and is back at the
\* queue without waiting for the capture.
C28_LiveHandedOver ==
    [][ LET flagged == /\ w["video"].pc = "get"
                       /\ Len(queue'["video"]) < Len(queue["video"])
                       /\ Dequeue(queue["video"]).task.len = 7
                       /\ Dequeue(queue["video"]).task.is_live
            probed == /\ w["video"].pc = "info"
                      /\ w'["video"].pc # "info"
                      /\ hist.space'.is_live
        IN  (flagged \/ probed) =>
              /\ Len(live') = Len(live) + 1
              /\ live'[Len(live')].job = hist.started'["video"][Len(hist.started'["video"])]
              /\ w'["video"].pc = "get"
              /\ dl'["video"] = DlIdle
              /\ hu' = hu ]_vars

\* C29: in the video path of handle_upload, after the transfer of a part
\* that is not the last one has failed, the failure is reported to the chat
\* in a message of its own and the loop goes on with the next part.
C29_FailedPartDoesNotAbort ==
    [][ ( /\ hu["video"].pc = "part_report"
          /\ hu["video"].i + 1 < Len(hu["video"].files_to_upload)
          /\ hu'["video"] # hu["video"] ) =>
          /\ hu'["video"].pc = "part"
          /\ hu'["video"].i = hu["video"].i + 1
          /\ Len(msgs') = Len(msgs) + 1
          /\ msgs'[Len(msgs')].text = <<"partfail", hu["video"].i + 1>> ]_vars

\* C30: a transfer of handle_upload (a video part or the audio file, which
\* is on disk) whose endpoint answers with flood control fewer than
\* max_retries times and then accepts, nothing else failing in the step, is
\* retried until the file is sent, on either endpoint.
C30_FloodedTransferRetried ==
    [][ LET h == hu["video"]
            f == IF h.pc = "part" THEN h.files_to_upload[h.i + 1] ELSE h.file_path
        IN  ( /\ h.pc \in {"part", "audio"}
              /\ hu'["video"] # h
              /\ hist.floods' \in 1..(max_retries - 1)
              /\ hist.faults' = hist.faults
              /\ f \in disk ) =>
              hu'["video"].sent = Append(h.sent, f) ]_vars

\* C31: every failure of the call wrapped by tg_retry that is not a
\* RetryAfter, before the last attempt, is followed by a sleep of 5 s when
\* the error message carries the flood marker and of 2 s otherwise, and
\* then by another call.
C31_OtherFailuresRetried ==
    [][ ( /\ tg.pc = "call"
          /\ tg'.calls = tg.calls + 1
          /\ tg'.pc # "returned"
          /\ tg'.err.cls # "RetryAfter"
          /\ tg.attempt < max_retries - 1 ) =>
          /\ tg'.pc = "sleep"
          /\ tg'.dur = IF tg'.err.flood THEN FloodBackoff ELSE ErrorBackoff ]_vars

(***************************************************************************)
(* Claims about config.get_proxy_list (checked under SpecProxyList).       *)
(***************************************************************************)
\* the entries of PROXY_LIST as configured: split at the commas, stripped
ListEntries ==
    IF env.proxy_list = <<>> THEN <<>>
    ELSE LET es == SplitComma(env.proxy_list)
         IN  [k \in 1..Len(es) |-> Strip(es[k])]
FirstEntry(u) == CHOOSE k \in 1..Len(ListEntries) :
                    ListEntries[k] = u /\ \A j \in 1..(k - 1) : ListEntries[j] # u

\* C15: the list download_content gets from get_proxy_list is never empty
\* and holds no route twice; it is [None] when PROXY and PROXY_LIST are
\* unset; PROXY comes first when set; after it come exactly the non-blank
\* entries of PROXY_LIST that differ from PROXY, each once, in the order of
\* their first occurrence.
C15_ProxyList ==
    LET l == dl["video"].proxy_list
        off == IF env.proxy # <<>> THEN 1 ELSE 0
    IN  dl["video"].pc # "idle" =>
            /\ l # <<>>
            /\ \A i, j \in 1..Len(l) : l[i] = l[j] => i = j
            /\ (env.proxy = <<>> /\ env.proxy_list = <<>>) => l = <<None>>
            /\ env.proxy # <<>> => l[1] = Route(env.proxy)
            /\ l # <<None>> =>
                  /\ \A i \in 1..Len(l) : ~l[i].none
                  /\ \A i \in (off + 1)..Len(l) :
                        /\ l[i].url # <<>>
                        /\ \E k \in 1..Len(ListEntries) : ListEntries[k] = l[i].url
                  /\ \A k \in 1..Len(ListEntries) :
                        (ListEntries[k] # <<>> /\ ListEntries[k] # env.proxy) =>
                            \E i \in (off + 1)..Len(l) : l[i].url = ListEntries[k]
                  /\ \A i, j \in (off + 1)..Len(l) :
                        i < j => FirstEntry(l[i].url) < FirstEntry(l[j].url)
            /\ l = <<None>> =>
                  /\ env.proxy = <<>>
                  /\ \A k \in 1..Len(ListEntries) : ListEntries[k] = <<>>

\* C15 witness: PROXY set, and a PROXY_LIST that repeats it, has a blank
\* entry and names one more route with a blank before it
C15_Witness ==
    /\ env.proxy = <<"a">>
    /\ env.proxy_list = <<"a", ",", ",", " ", "b">>
    /\ dl["video"].proxy_list = <<Route(<<"a">>), Route(<<"b">>)>>

(***************************************************************************)
(* Claims about config.is_user_allowed (checked under SpecAllowed).        *)
(***************************************************************************)
\* the chat ids that appear in ALLOWED_CHAT_IDS
ListedIds ==
    LET es == AllowedEntries(env.allowed_chat_ids)
    IN  { IntOf(es[k]) : k \in { j \in 1..Len(es) : IsInt(es[j]) } }

\* C16: is_user_allowed returns true for every chat when ALLOWED_CHAT_IDS
\* is empty; when it is not empty it returns true only for the chat ids
\* that appear in it.
C16_OnlyListedChats ==
    \A k \in 1..Len(hist.checks) :
        /\ env.allowed_chat_ids = <<>> => hist.checks[k].allowed
        /\ (env.allowed_chat_ids # <<>> /\ hist.checks[k].allowed) =>
              hist.checks[k].chat_id \in ListedIds

(***************************************************************************)
(* Claims about the subscriptions table (checked under SpecDatabase).      *)
(***************************************************************************)
\* the places of channel_id in the listing of chat_id
PlacesOf(channel_id, chat_id) ==
    { i \in 1..Len(get_user_subscriptions(db, chat_id)) :
        get_user_subscriptions(db, chat_id)[i][1] = channel_id }

\* C17: after any sequence of add_subscription and remove_subscription
\* calls, get_user_subscriptions(chat) lists exactly the channels whose last
\* operation for that (channel_id, chat_id) pair was an add, each exactly
\* once and with the name and quality of that last add; remove_subscription
\* returns true exactly when it removed a listed subscription.
C17_ListingFollowsLastOperation ==
    /\ \A chat_id \in DbChats, channel_id \in Channels :
         LET l == hist.last[<<channel_id, chat_id>>]
             rows == get_user_subscriptions(db, chat_id)
         IN  IF l.op = "add"
             THEN /\ Cardinality(PlacesOf(channel_id, chat_id)) = 1
                  /\ \A i \in PlacesOf(channel_id, chat_id) :
                       /\ rows[i][2] = l.channel_name
                       /\ rows[i][3] = l.max_quality
             ELSE PlacesOf(channel_id, chat_id) = {}
    /\ hist.ret.op = "remove" => (hist.ret.result <=> hist.ret.listed)

\* a pair subscribed twice, and then a removal that found it
C17_Witness ==
    /\ hist.ops = MaxDbOps
    /\ db.next_id = 3
    /\ db.subscriptions = <<>>
    /\ hist.ret = [op |-> "remove", result |-> TRUE, listed |-> TRUE]

(***************************************************************************)
(* Claims about the processed-video records (checked under SpecScan).      *)
(***************************************************************************)
\* the jobs put on the single-video queue for video_id and chat_id
JobsFor(video_id, chat_id) ==
    { i \in 1..Len(queue["video"]) :
        queue["video"][i].url = video_id /\ queue["video"][i].chat_id = chat_id }

\* C18: a video id is reported unprocessed until it is marked and processed
\* from then on; an id is marked before any job is enqueued for it, and
\* across the manual checks and the passes of the monitor one video id
\* leads to at most one enqueued job per subscribed chat.
C18_MarkedOnceEnqueuedOnce ==
    /\ \A video_id \in VideoIds :
         is_video_processed(db, video_id) <=> video_id \in hist.marked
    /\ \A i \in 1..Len(queue["video"]) : queue["video"][i].url \in hist.marked
    /\ \A video_id \in VideoIds, chat_id \in DbChats :
         Cardinality(JobsFor(video_id, chat_id)) <= 1

(***************************************************************************)
(* Claims about uploader.split_video (checked under SpecSplit).            *)
(***************************************************************************)
\* C13: for a file whose size is at most the active limit (the limit
\* itself included) split_video returns the one-element list of the input
\* path and runs ffmpeg zero times.
C13_UnderCeilingUntouched ==
    LET sp == hu["video"].split
    IN  (sp.called /\ sp.size <= sp.limit) =>
            /\ ~sp.result.raised
            /\ sp.result.parts = <<sp.file_path>>
            /\ sp.result.calls = 0
            /\ disk = {sp.file_path}

\* C13 witness: a file of exactly the limit of the official API
C13_Witness ==
    LET sp == hu["video"].split
    IN  /\ sp.called /\ sp.size = STANDARD_API_LIMIT /\ sp.limit = STANDARD_API_LIMIT
        /\ sp.result.parts = <<sp.file_path>> /\ sp.result.calls = 0

\* floor(s / (ceiling * 0.95)) + 1, as floor(floor(20 s / 19) / ceiling) + 1
PartsWithMargin(s, ceiling) == ((s + (s \div 19)) \div ceiling) + 1

\* C14: for a file larger than the active limit, the duration known and
\* every ffmpeg call succeeding, split_video returns exactly
\* floor(s / (limit * 0.95)) + 1 parts, in part-number order.
C14_PartCountWithMargin ==
    LET sp == hu["video"].split
        n == Len(sp.result.parts)
    IN  (/\ sp.called /\ sp.size > sp.limit /\ sp.duration = "0:03:00"
         /\ \A k \in 1..MaxParts : k \in sp.ok_parts) =>
            /\ n = PartsWithMargin(sp.size, sp.limit)
            /\ \A k \in 1..n : sp.result.parts[k] = SplitPart(sp.file_path, k)

\* C32: for a file larger than the active limit, when ffmpeg reports no
\* usable duration or one of the per-part ffmpeg calls fails, split_video
\* returns the one-element list of the input path.
C32_DegradesToOriginal ==
    LET sp == hu["video"].split
        num_parts == (sp.size \div sp.limit) + 1
    IN  ( /\ sp.called /\ sp.size > sp.limit
          /\ \/ sp.duration \in {"none", "N/A"}
             \/ \E k \in 1..num_parts : k \notin sp.ok_parts ) =>
            /\ ~sp.result.raised
            /\ sp.result.parts = <<sp.file_path>>

(***************************************************************************)
(* Claims about the files of concurrent jobs (checked under Spec).         *)
(***************************************************************************)
\* C33: while the job of one worker is inside handle_upload with its file
\* on disk, no step of the other worker's job removes that file: a job's
\* cleanup removes only artifacts of its own.
C33_CleanupOwnFilesOnly ==
    [][ \A o \in Callers :
          ( /\ hu[o].pc \in {"split", "part", "part_report", "cleanup"}
            /\ hu[o].file_path \in disk
            /\ hu'[o] = hu[o] ) =>
            hu[o].file_path \in disk' ]_vars

(***************************************************************************)
(* Claims about process_playlist_queue (checked under SpecPlaylist).       *)
(***************************************************************************)
\* C34: when the fetch of a playlist entry that is not the last one has
\* failed, the loop goes on to the boundary of the next entry: the next
\* entry's fetch is started, or the playlist stops there because it was
\* cancelled; this also when the send of the skip report raises.
C34_EntryFailureSkipped ==
    [][ LET p == w["playlist"]
        IN  ( /\ p.pc = "download"
              /\ dl["playlist"].pc = "raised"
              /\ w'["playlist"] # p
              /\ p.idx + 1 < Len(p.entries) ) =>
              /\ w'["playlist"].idx = p.idx + 1
              /\ \/ /\ w'["playlist"].pc = "download"
                    /\ dl'["playlist"].pc = "extract"
                    /\ dl'["playlist"].vid = p.entries[p.idx + 2]
                 \/ hist.ended'["playlist"].how = "cancelled" ]_vars

\* C35: the fetch of a playlist entry is never ended by the cancellation:
\* download_content does not raise the cancellation error for a playlist
\* job, whose mark is looked at only between entries.
C35_NoCancelInsideEntry ==
    dl["playlist"].pc = "raised" => dl["playlist"].exc.err # "cancelled"

\* C36: a playlist job that was cancelled before all of its entries were
\* started does not leave its status message saying that the playlist is
\* complete with all entries finished.
C36_CancelledNotComplete ==
    LET p == w["playlist"]
    IN  ( /\ hist.ended["playlist"].how = "cancelled"
          /\ p.status_msg # NoMsg
          /\ p.idx < Len(p.entries) ) =>
          msgs[p.status_msg.id].text # <<"pl_complete", Len(p.entries)>>

(***************************************************************************)
(* Claims about process_live_stream (checked under SpecVideo).             *)
(***************************************************************************)
\* C37: a pass of the supervisor's loop made while the job's identifier is
\* in cancelled_tasks ends the supervisor as cancelled: the capture process
\* is terminated, no segment file of the job is left, the identifier is
\* out of cancelled_tasks and nothing was uploaded by that pass.
C37_LiveCancelStopsCapture ==
    [][ \A i \in 1..Len(live) :
          ( /\ live[i].pc = "loop"
            /\ live'[i].pc # "loop"
            /\ live[i].task_id \in cancelled_tasks ) =>
            /\ live'[i].ended = "cancelled"
            /\ live'[i].capture = "terminated"
            /\ GlobSegs(disk', live[i].task_id) = {}
            /\ live[i].task_id \notin cancelled_tasks'
            /\ live'[i].uploaded_segments = live[i].uploaded_segments ]_vars

\* C38: when a supervisor has finished after its capture process exited on
\* its own, every segment file the process produced has been handed to
\* handle_upload exactly once.
C38_FinalSweepUploadsAll ==
    \A i \in 1..Len(live) :
        ( /\ live[i].pc = "done"
          /\ live[i].capture = "exited"
          /\ live[i].task_id \notin cancelled_tasks ) =>
          \A n \in 1..live[i].segs :
              Cardinality({ k \in 1..Len(live[i].uploaded_segments) :
                              live[i].uploaded_segments[k] = SegFile(live[i].task_id, n) }) = 1

C40_ScanReachesSubscribers ==
    [][ ( /\ scan'.passes = scan.passes + 1
          /\ get_all_subscriptions(db) # <<>> ) =>
          scan'.last = "checked" ]_vars

(***************************************************************************)
(* Claims about update_status_msg (checked under SpecStatus).              *)
(***************************************************************************)
\* two calls in a row with the same text and force=False, the second less
\* than StatusInterval after the first
RepeatedCalls ==
    { i \in 1..(Len(hist.calls) - 1) :
        /\ hist.calls[i].text = hist.calls[i + 1].text
        /\ ~hist.calls[i].force /\ ~hist.calls[i + 1].force
        /\ hist.calls[i + 1].t - hist.calls[i].t < StatusInterval }
Outbound(i) == IF hist.calls[i].out THEN 1 ELSE 0

UnforcedOut == { i \in 1..Len(hist.calls) : ~hist.calls[i].force /\ hist.calls[i].out }

\* C24: for one job, two reports with force=False never both produce an
\* outbound send or edit less than StatusInterval seconds apart, also when
\* the coroutines of the progress callbacks overlap on the event loop.
C24_UnforcedReportsSpaced ==
    \A i, j \in UnforcedOut :
        i < j => ~(hist.calls[j].t - hist.calls[i].t < StatusInterval)

\* the text the chat shows for the status message of the reporter
Displayed == msgs[w["video"].status_msg.id].text

\* C25: update_status_msg sends no edit when the new text equals the text
\* currently displayed in the status message, also when force is true and
\* after earlier edits; and a report whose text differs from what is
\* displayed is not suppressed for that reason (it goes out when it is
\* forced or outside the window and the transport call succeeds).
C25_SuppressedIffDisplayed ==
    [][ (Len(hist.calls') = Len(hist.calls) + 1 /\ w["video"].status_msg # NoMsg) =>
          LET call == hist.calls'[Len(hist.calls')]
          IN  /\ call.text = Displayed => ~call.out
              /\ (/\ call.text # Displayed
                  /\ call.force \/ ~(call.t - call.last < StatusInterval)
                  /\ call.ok)
                 => call.out ]_vars

(***************************************************************************)
(* Claims about download_content (checked under SpecDownload).             *)
(***************************************************************************)
\* the extractor calls so far all raised restriction-class errors
OnlyRestrictionErrors(o) ==
    \A i \in 1..Len(o) : o[i] # "ok" /\ GeoRestricted[o[i]]

\* C6: when the extractor raises restriction-class errors on routes 1..k
\* (k < n) download_content has not raised and is trying route k+1, having
\* tried routes 1..k+1 once each in list order; when the call on route k+1
\* succeeds it returns that call's result, without raising and without
\* trying a later route.
C6_Failover ==
    LET d == dl["video"]
        o == d.outcomes
        k == Len(o)
    IN  /\ (d.pc # "idle" /\ k < Len(d.proxy_list) /\ OnlyRestrictionErrors(o)) =>
              /\ d.pc = "extract" /\ d.exc = NoExc
              /\ d.proxy_idx = k
              /\ d.tried = SubSeq(d.proxy_list, 1, k + 1)
        /\ (k >= 1 /\ o[k] = "ok" /\ OnlyRestrictionErrors(SubSeq(o, 1, k - 1))) =>
              /\ d.pc = "returned" /\ d.exc = NoExc
              /\ d.ret.via = k
              /\ d.ret.filename = DlFilename(d) /\ d.ret.filename \in disk
              /\ d.tried = SubSeq(d.proxy_list, 1, k)

\* C6 witness: three routes, restriction errors on the first two, then success.
C6_Witness ==
    LET d == dl["video"]
    IN  /\ Len(d.proxy_list) = 3 /\ d.pc = "returned"
        /\ d.outcomes = <<"private", "country", "ok">> /\ d.ret.via = 3

\* C7: an extractor error that matches no restriction signature (among
\* them the network error, the HTTP 404 and the cancellation raised from the
\* progress hook) is the last extractor call of download_content: the call
\* raises that error and tries no further route.
C7_NonRestrictionRaises ==
    LET d == dl["video"]
        o == d.outcomes
    IN  \A i \in 1..Len(o) :
            (o[i] # "ok" /\ (~GeoRestricted[o[i]] \/ o[i] \in {"dns", "http404", "cancelled"})) =>
                /\ i = Len(o)
                /\ d.pc = "raised"
                /\ d.exc = [kind |-> "same", err |-> o[i], n |-> 0]
                /\ Len(d.tried) = i

\* C7 witness: the cancellation is raised from the progress hook on the
\* first of three routes.
C7_Witness ==
    LET d == dl["video"]
    IN  /\ Len(d.proxy_list) = 3 /\ d.pc = "raised"
        /\ d.outcomes = <<"cancelled">> /\ Len(d.tried) = 1

\* C8: when every route fails with a restriction-class error,
\* download_content raises the configure-a-proxy hint if the list is the
\* unconfigured [None], and the all-routes-exhausted error otherwise; never
\* the generic download failure.
C8_Exhausted ==
    LET d == dl["video"]
        o == d.outcomes
    IN  (d.pc = "raised" /\ Len(o) = Len(d.proxy_list) /\ OnlyRestrictionErrors(o)) =>
            /\ d.exc.kind = (IF d.proxy_list = <<None>> THEN "hint" ELSE "all")
            /\ d.exc.kind # "generic"
            /\ d.exc.kind = "all" => d.exc.n = Len(d.proxy_list)

\* C8 witness: no proxy configured, one restriction-class error.
C8_Witness ==
    LET d == dl["video"]
    IN  /\ env.proxy = <<>> /\ env.proxy_list = <<>>
        /\ d.proxy_list = <<None>> /\ d.outcomes = <<"private">>
        /\ d.pc = "raised" /\ d.exc.kind = "hint"

(***************************************************************************)
(* Claims about tg_retry (checked under SpecRetry).                        *)
(***************************************************************************)
\* C9: when the wrapped call raises RetryAfter with wait w on an attempt
\* before the 10th, tg_retry does not raise; it sleeps w and calls again,
\* and when that following call succeeds tg_retry has returned its result
\* after a sleep of exactly w, one call after the failed one.
C9_RetryAfterThenSuccess ==
    tg.err.cls = "RetryAfter" /\ tg.errCall < 10 =>
        /\ tg.pc # "raised" /\ tg.exc = "none"
        /\ tg.pc = "sleep" => tg.dur = tg.err.retry_after
        /\ tg.pc \in {"call", "returned"} => tg.slept = tg.err.retry_after
        /\ tg.pc = "call" => tg.calls = tg.errCall
        /\ tg.pc = "returned" => tg.calls = tg.errCall + 1

\* C9 witness: a RetryAfter(3) on the first attempt, then success.
C9_Witness ==
    /\ tg.pc = "returned" /\ tg.err.cls = "RetryAfter" /\ tg.err.retry_after = 3
    /\ tg.errCall = 1 /\ tg.calls = 2 /\ tg.slept = 3

\* C10 as stated: when every attempt fails with RetryAfter, a flood message
\* or an unclassified exception, the call was invoked at most 10 times and
\* tg_retry raises "Max retries exceeded".
C10_AlwaysMaxRetries ==
    (tg.pc = "raised" /\ ~(tg.err.cls = "TelegramError" /\ ~tg.err.flood)) =>
        (tg.calls <= 10 /\ tg.exc = "MaxRetries")

\* C10 amended: when every attempt fails the call was invoked at most 10
\* times; "Max retries exceeded" is raised exactly when the 10th attempt
\* failed with RetryAfter or a flood message; an unclassified exception on
\* the 10th attempt, and a TelegramError without the flood marker on any
\* attempt, is re-raised itself.
C10_Exhaustion ==
    tg.pc = "raised" =>
        /\ tg.calls <= 10
        /\ tg.exc = "MaxRetries" <=>
              (tg.calls = 10 /\ (tg.err.cls = "RetryAfter"
                                   \/ (tg.err.cls = "TelegramError" /\ tg.err.flood)))
        /\ tg.exc = "same" <=>
              \/ (tg.calls = 10 /\ tg.err.cls = "Exception")
              \/ (tg.err.cls = "TelegramError" /\ ~tg.err.flood)

\* C10 witness: ten failed attempts, the last one an unclassified exception.
C10_Witness ==
    tg.pc = "raised" /\ tg.calls = 10 /\ tg.err.cls = "Exception" /\ tg.exc = "same"

====
